---- MODULE Spec2Model ----
(***************************************************************************)
(* Model of the mockery MCP server of rikdc/ai_claude_mocks:               *)
(*   mcp-server/internal/server/mcp.go  - dispatcher, transports, invoker,  *)
(*                                        interface scanner                 *)
(*   mcp-server/cmd/server/main.go      - choice of the transport binding   *)
(* Strings are TLA+ strings; paths are slash-separated strings.             *)
(***************************************************************************)
EXTENDS Integers, Sequences, FiniteSets, TLC

VARIABLES
    addr,      \* main.go -addr flag: "stdio" selects the pipe binding
    fs,        \* the filesystem: [dirs, files, unreadable]
    lookPath,  \* whether exec.LookPath("mockery") succeeds
    pc,        \* per session: position of its read/dispatch/write loop
    cur,       \* per session: the request decoded by the latest read
    resp,      \* per session: the *MCPResponse returned by handleMCPRequest
    out,       \* per session: messages written to stdout / the connection
    nread,     \* per session: number of lines / messages read so far
    work,      \* per session: delegate calls made while handling cur
    werr,      \* per session: whether the latest write returned an error
    bad,       \* per session: number of reads that did not decode (history)
    fileSet,   \* scanner.fileSet: the files added by every parse so far
    mu,        \* the mutex of fileSet: 0 when free, else the session holding it
    scanning,  \* per session: the locals of a ScanProject call in progress
    call,      \* the latest direct call of a library function: [op, in, out]
    configManager,   \* server.configManager: its default configuration, and
                     \* the heap of package maps its configurations refer to
    projectManager   \* server.projectManager: the job registry and its jobs

\* the state of the server process
serverVars == <<addr, fs, lookPath, pc, cur, resp, out, nread, work, werr, bad,
                fileSet, mu, scanning>>

vars == <<serverVars, call, configManager, projectManager>>

---------------------------------------------------------------------------
(* Bounds of the model *)

\* total number of lines / messages read by all sessions of a run
MaxReq == 2
\* number of socket connections that may be accepted
MaxConns == 2
\* number of requests read in the single-session dispatch specification
MaxDispatchReq == 1

---------------------------------------------------------------------------
(* strings *)

HasPrefix(s, p) == Len(s) >= Len(p) /\ SubSeq(s, 1, Len(p)) = p

HasSuffix(s, x) == Len(s) >= Len(x) /\ SubSeq(s, Len(s) - Len(x) + 1, Len(s)) = x

Contains(s, x) ==
    \E i \in 1..(Len(s) - Len(x) + 1) : SubSeq(s, i, i + Len(x) - 1) = x

\* strings.Trim(s, cutset) for a cutset of one character
RECURSIVE Trim(_, _)
Trim(s, c) ==
    IF Len(s) > 0 /\ SubSeq(s, 1, 1) = c THEN Trim(SubSeq(s, 2, Len(s)), c)
    ELSE IF Len(s) > 0 /\ SubSeq(s, Len(s), Len(s)) = c
    THEN Trim(SubSeq(s, 1, Len(s) - 1), c)
    ELSE s

ReplaceAll_First(s, old, new) ==
    LET at == {i \in 1..(Len(s) - Len(old) + 1) : SubSeq(s, i, i + Len(old) - 1) = old}
        first == CHOOSE i \in at : \A j \in at : i <= j
    IN  IF at = {} THEN s
        ELSE SubSeq(s, 1, first - 1) \o new \o SubSeq(s, first + Len(old), Len(s))

\* strings.ReplaceAll
RECURSIVE ReplaceAll(_, _, _)
ReplaceAll(s, old, new) ==
    IF Len(s) < Len(old) THEN s
    ELSE IF SubSeq(s, 1, Len(old)) = old
         THEN new \o ReplaceAll(SubSeq(s, Len(old) + 1, Len(s)), old, new)
         ELSE SubSeq(s, 1, 1) \o ReplaceAll(SubSeq(s, 2, Len(s)), old, new)

Upper == "ABCDEFGHIJKLMNOPQRSTUVWXYZ"
Lower == "abcdefghijklmnopqrstuvwxyz"

LowerChar(c) ==
    IF \E i \in 1..Len(Upper) : SubSeq(Upper, i, i) = c
    THEN LET i == CHOOSE i \in 1..Len(Upper) : SubSeq(Upper, i, i) = c
         IN  SubSeq(Lower, i, i)
    ELSE c

RECURSIVE ToLower(_)
ToLower(s) ==
    IF s = "" THEN ""
    ELSE LowerChar(SubSeq(s, 1, 1)) \o ToLower(SubSeq(s, 2, Len(s)))

\* byte order of the characters that occur in the names of the model
Alphabet == "-./0123456789ABCDEFGHIJKLMNOPQRSTUVWXYZ_abcdefghijklmnopqrstuvwxyz{}"

CharOrd ==
    [c \in {SubSeq(Alphabet, i, i) : i \in 1..Len(Alphabet)} |->
        CHOOSE i \in 1..Len(Alphabet) : SubSeq(Alphabet, i, i) = c]

Ord(c) == IF c \in DOMAIN CharOrd THEN CharOrd[c] ELSE 0

RECURSIVE StrLess(_, _)
StrLess(a, b) ==
    IF b = "" THEN FALSE
    ELSE IF a = "" THEN TRUE
    ELSE LET x == Ord(SubSeq(a, 1, 1))
             y == Ord(SubSeq(b, 1, 1))
         IN  IF x # y THEN x < y
             ELSE StrLess(SubSeq(a, 2, Len(a)), SubSeq(b, 2, Len(b)))

\* a set of strings as the sequence sorted in byte order
RECURSIVE SortStrings(_)
SortStrings(S) ==
    IF S = {} THEN <<>>
    ELSE LET m == CHOOSE x \in S : \A y \in S \ {x} : StrLess(x, y)
         IN  <<m>> \o SortStrings(S \ {m})

RECURSIVE Flatten(_)
Flatten(ss) == IF ss = <<>> THEN <<>> ELSE Head(ss) \o Flatten(Tail(ss))

---------------------------------------------------------------------------
(* JSON values, as encoding/json decodes them into interface{} *)

JNull == [t |-> "null"]
JStr(s) == [t |-> "string", s |-> s]
JNum(n) == [t |-> "number", n |-> n]
JBool(b) == [t |-> "bool", b |-> b]
JArr == [t |-> "array"]
JObj(f) == [t |-> "object", f |-> f]

\* m[k] of a Go map[string]interface{}: nil when the key is missing
Lookup(m, k) == IF k \in DOMAIN m THEN m[k] ELSE JNull

---------------------------------------------------------------------------
(* paths and the filesystem *)

Cwd == "/work"

IsAbs(p) == HasPrefix(p, "/")

\* the elements of a path between its separators
RECURSIVE Elements(_)
Elements(p) ==
    LET at == {i \in 1..Len(p) : SubSeq(p, i, i) = "/"} IN
    IF at = {} THEN <<p>>
    ELSE LET i == CHOOSE i \in at : \A j \in at : i <= j
         IN  <<SubSeq(p, 1, i - 1)>> \o Elements(SubSeq(p, i + 1, Len(p)))

\* the elements filepath.Clean keeps, given those it kept so far: it drops the
\* empty ones and ".", and ".." takes back the element before it
RECURSIVE Kept(_, _, _)
Kept(elems, kept, rooted) ==
    IF elems = <<>> THEN kept
    ELSE LET e == Head(elems)
             n == Len(kept)
         IN  Kept(Tail(elems),
                  IF e \in {"", "."} THEN kept
                  ELSE IF e # ".." THEN Append(kept, e)
                  ELSE IF n > 0 /\ kept[n] # ".." THEN SubSeq(kept, 1, n - 1)
                  ELSE IF rooted THEN kept
                  ELSE Append(kept, e),
                  rooted)

RECURSIVE Separated(_)
Separated(elems) ==
    IF elems = <<>> THEN ""
    ELSE IF Len(elems) = 1 THEN elems[1]
    ELSE elems[1] \o "/" \o Separated(Tail(elems))

\* filepath.Clean
Clean(p) ==
    LET rooted == IsAbs(p)
        body == Separated(Kept(Elements(p), <<>>, rooted))
    IN  IF rooted THEN "/" \o body
        ELSE IF body = "" THEN "."
        ELSE body

\* filepath.Join of two elements: the empty ones are left out and the result
\* is cleaned
Join(a, b) ==
    IF a = "" /\ b = "" THEN ""
    ELSE Clean(IF a = "" THEN b ELSE IF b = "" THEN a ELSE a \o "/" \o b)

\* filepath.Abs: Clean of an absolute path, Join of the working directory
\* and a relative one (which cleans Cwd/p, and Cwd when p is empty)
Abs(p) == Clean(IF IsAbs(p) THEN p ELSE Cwd \o "/" \o p)

\* the proper ancestors of a clean absolute path, and the path itself
Ancestors(p) ==
    {"/"} \cup {SubSeq(p, 1, i) : i \in {j \in 2..Len(p) : j = Len(p) \/ SubSeq(p, j + 1, j + 1) = "/"}}

Exists(f, p) == p \in f.dirs \cup f.files

\* the entries of directory d
IsChild(d, p) ==
    LET pre == IF d = "/" THEN "/" ELSE d \o "/"
    IN  /\ HasPrefix(p, pre)
        /\ Len(p) > Len(pre)
        /\ ~Contains(SubSeq(p, Len(pre) + 1, Len(p)), "/")

Children(f, d) == {p \in f.dirs \cup f.files : IsChild(d, p)}

\* os.MkdirAll takes the path as it is written, element by element from
\* directory d: an element that names a directory (as "", "." and ".." do) is
\* entered, one that names nothing is made and entered, and one that names a
\* regular file ends the call with an error; what was made before stays.
RECURSIVE MkdirAllFrom(_, _, _)
MkdirAllFrom(f, d, elems) ==
    IF elems = <<>> THEN [ok |-> TRUE, fs |-> f]
    ELSE LET next == Join(d, Head(elems)) IN
         IF next \in f.files THEN [ok |-> FALSE, fs |-> f]
         ELSE MkdirAllFrom([f EXCEPT !.dirs = @ \cup {next}], next, Tail(elems))

\* the directory the elements of a path are taken from
StartOf(p) == IF IsAbs(p) THEN "/" ELSE Cwd

\* os.MkdirAll: whether it returns nil, and the filesystem it leaves
MkdirAllOk(f, p) == MkdirAllFrom(f, StartOf(p), Elements(p)).ok

MkdirAll(f, p) == MkdirAllFrom(f, StartOf(p), Elements(p)).fs

\* the path os.MkdirAll comes to next that is no directory: the one it makes,
\* or the regular file it fails on; "" when every element names a directory
RECURSIVE MkdirNextFrom(_, _, _)
MkdirNextFrom(f, d, elems) ==
    IF elems = <<>> THEN ""
    ELSE LET next == Join(d, Head(elems)) IN
         IF next \in f.dirs THEN MkdirNextFrom(f, next, Tail(elems))
         ELSE next

---------------------------------------------------------------------------
(* the interface scanner (package scanner of mcp.go) *)

\* the source files of the project tree: what go/parser makes of each
SourceCode ==
    [p \in {"/work/proj/greeter.go", "/work/proj/store.go", "/work/proj/broken.go",
            "/work/proj/greeter_test.go", "/work/proj/vendor/dep.go"} |->
        CASE p = "/work/proj/greeter.go" ->
                 [parses |-> TRUE, pkg |-> "demo",
                  decls |-> <<[name |-> "Greeter", isInterface |-> TRUE, line |-> 3,
                               methods |-> <<[name |-> "Greet", embedded |-> FALSE]>>]>>]
          [] p = "/work/proj/store.go" ->
                 [parses |-> TRUE, pkg |-> "demo",
                  decls |-> <<[name |-> "Item", isInterface |-> FALSE, line |-> 3,
                               methods |-> <<>>],
                              [name |-> "Store", isInterface |-> TRUE, line |-> 8,
                               methods |-> <<[name |-> "", embedded |-> TRUE],
                                             [name |-> "Get", embedded |-> FALSE],
                                             [name |-> "Put", embedded |-> FALSE]>>]>>]
          [] p = "/work/proj/broken.go" ->
                 [parses |-> FALSE, pkg |-> "", decls |-> <<>>]
          [] p = "/work/proj/greeter_test.go" ->
                 [parses |-> TRUE, pkg |-> "demo",
                  decls |-> <<[name |-> "TestDouble", isInterface |-> TRUE, line |-> 5,
                               methods |-> <<>>]>>]
          [] OTHER ->
                 [parses |-> TRUE, pkg |-> "dep",
                  decls |-> <<[name |-> "Dep", isInterface |-> TRUE, line |-> 2,
                               methods |-> <<[name |-> "Do", embedded |-> FALSE]>>]>>]]

\* a file written by the external tool: it parses and declares no interface
GeneratedCode == [parses |-> TRUE, pkg |-> "mocks", decls |-> <<>>]

FileSource(p) == IF p \in DOMAIN SourceCode THEN SourceCode[p] ELSE GeneratedCode

\* what go/parser makes of a file of filesystem f: a filesystem may carry the
\* sources of its own files
SourceOf(f, p) ==
    IF "src" \in DOMAIN f /\ p \in DOMAIN f.src THEN f.src[p] ELSE FileSource(p)

\* go/ast type expressions, as records tagged with the node kind
Ident(name) == [k |-> "Ident", Name |-> name]
SelectorExpr(x, sel) == [k |-> "SelectorExpr", X |-> x, Sel |-> sel]
StarExpr(x) == [k |-> "StarExpr", X |-> x]
NoExpr == [k |-> "nil"]
ArrayType(len, elt) == [k |-> "ArrayType", Len |-> len, Elt |-> elt]
MapType(key, value) == [k |-> "MapType", Key |-> key, Value |-> value]
ChanType(dir, value) == [k |-> "ChanType", Dir |-> dir, Value |-> value]
InterfaceType == [k |-> "InterfaceType"]
StructType == [k |-> "StructType"]
BasicLit(value) == [k |-> "BasicLit", Value |-> value]
Ellipsis(elt) == [k |-> "Ellipsis", Elt |-> elt]
\* a field of a parameter or result list: the names declared and their type
Field(names, type) == [Names |-> names, Type |-> type]
\* *ast.FieldList: the fields of a list, or nil for a missing list
FieldList(fields) == [List |-> fields]
NoFieldList == [nil |-> TRUE]
FuncType(params, results) == [k |-> "FuncType", Params |-> params, Results |-> results]

RECURSIVE typeToString(_)
typeToString(expr) ==
    CASE expr.k = "Ident" -> expr.Name
      [] expr.k = "SelectorExpr" -> typeToString(expr.X) \o "." \o expr.Sel
      [] expr.k = "StarExpr" -> "*" \o typeToString(expr.X)
      [] expr.k = "ArrayType" ->
             IF expr.Len = NoExpr
             THEN "[]" \o typeToString(expr.Elt)
             ELSE "[" \o typeToString(expr.Len) \o "]" \o typeToString(expr.Elt)
      [] expr.k = "MapType" ->
             "map[" \o typeToString(expr.Key) \o "]" \o typeToString(expr.Value)
      [] expr.k = "ChanType" ->
             CASE expr.Dir = "SEND" -> "chan<- " \o typeToString(expr.Value)
               [] expr.Dir = "RECV" -> "<-chan " \o typeToString(expr.Value)
               [] OTHER -> "chan " \o typeToString(expr.Value)
      [] expr.k = "FuncType" -> "func"
      [] expr.k = "InterfaceType" -> "interface{}"
      [] OTHER -> "unknown"

fieldParameters_FirstName(field) ==
    <<[Name |-> IF Len(field.Names) > 0 THEN field.Names[1] ELSE "",
       Type |-> typeToString(field.Type)]>>

\* the Parameters one field contributes: one per name, or one without a name
fieldParameters(field) ==
    LET type == typeToString(field.Type) IN
    IF Len(field.Names) > 0
    THEN [i \in 1..Len(field.Names) |-> [Name |-> field.Names[i], Type |-> type]]
    ELSE <<[Name |-> "", Type |-> type]>>

listParameters(list) ==
    IF list = NoFieldList THEN <<>>
    ELSE Flatten([i \in 1..Len(list.List) |-> fieldParameters(list.List[i])])

extractMethodSignature(name, methodType) ==
    IF methodType.k = "FuncType"
    THEN [Name |-> name,
          Parameters |-> listParameters(methodType.Params),
          Returns |-> listParameters(methodType.Results)]
    ELSE [Name |-> name, Parameters |-> <<>>, Returns |-> <<>>]

\* method.Type of a method of the source table: func() when the table gives none
MethodType(m) == IF "type" \in DOMAIN m THEN m.type ELSE FuncType(FieldList(<<>>), NoFieldList)

extractInterfaceDefinition(decl, packageName, filePath) ==
    LET named == SelectSeq(decl.methods, LAMBDA m : ~m.embedded) IN
    [Name |-> decl.name,
     Package |-> packageName,
     Methods |-> [i \in 1..Len(named) |->
                    extractMethodSignature(named[i].name, MethodType(named[i]))],
     FilePath |-> filePath,
     LineNumber |-> decl.line]

\* scanFile: parse error, or one definition per interface type declaration
scanFile(f, filePath) ==
    IF filePath \notin f.files \/ ~SourceOf(f, filePath).parses
    THEN [err |-> TRUE, interfaces |-> <<>>]
    ELSE LET src == SourceOf(f, filePath)
             decls == SelectSeq(src.decls, LAMBDA d : d.isInterface)
         IN  [err |-> FALSE,
              interfaces |-> [i \in 1..Len(decls) |->
                                extractInterfaceDefinition(decls[i], src.pkg, filePath)]]

\* nil *InterfaceDefinition
NilDefinition == [nil |-> TRUE]

\* ExtractInterfaceMetadata: the first interface of the file with this name
ExtractInterfaceMetadata(f, filePath, interfaceName) ==
    LET scan == scanFile(f, filePath)
        named == SelectSeq(scan.interfaces, LAMBDA iface : iface.Name = interfaceName)
    IN  IF scan.err
        THEN [err |-> "failed to parse file " \o filePath, definition |-> NilDefinition]
        ELSE IF named # <<>>
        THEN [err |-> "", definition |-> named[1]]
        ELSE [err |-> "interface " \o interfaceName \o " not found in file " \o filePath,
              definition |-> NilDefinition]

\* the paths filepath.Walk hands to the callback, in its order: a directory,
\* then its entries sorted by name, each with what lies below it
RECURSIVE WalkOrder(_, _)
WalkOrder(f, p) ==
    IF p \in f.dirs /\ p \notin f.unreadable
    THEN LET pre == IF p = "/" THEN 1 ELSE Len(p) + 1
             names == SortStrings({SubSeq(k, pre + 1, Len(k)) : k \in Children(f, p)})
         IN  <<p>> \o Flatten([i \in 1..Len(names) |-> WalkOrder(f, Join(p, names[i]))])
    ELSE <<p>>

\* the entries of directory p as filepath.Walk reads them: sorted by name
Entries(f, p) ==
    LET pre == IF p = "/" THEN 1 ELSE Len(p) + 1
        names == SortStrings({SubSeq(k, pre + 1, Len(k)) : k \in Children(f, p)})
    IN  [i \in 1..Len(names) |-> Join(p, names[i])]

\* the callback of ScanProject hands this path to scanFile
Scanned(path) ==
    /\ HasSuffix(path, ".go")
    /\ ~HasSuffix(path, "_test.go")
    /\ ~Contains(path, "vendor/")

\* the paths a walk has still to visit, without the files at the front for
\* which the callback returns at once
RECURSIVE Pending(_, _)
Pending(f, todo) ==
    IF todo # <<>> /\ Head(todo) \in f.files /\ ~Scanned(Head(todo))
    THEN Pending(f, Tail(todo))
    ELSE todo

\* the walk fails on a root that does not exist and on a directory it cannot list
WalkFails(f, root) ==
    \/ ~Exists(f, root)
    \/ \E d \in f.unreadable : d \in f.dirs /\ (d = root \/ root \in Ancestors(d))

\* the callback of ScanProject on one path: the interfaces it appends
visit(f, path) ==
    IF ~HasSuffix(path, ".go") THEN <<>>
    ELSE IF HasSuffix(path, "_test.go") THEN <<>>
    ELSE IF Contains(path, "vendor/") THEN <<>>
    ELSE IF scanFile(f, path).err THEN <<>>
    ELSE scanFile(f, path).interfaces

ScanProject_FailOnParseError(f, projectPath) ==
    LET paths == WalkOrder(f, projectPath) IN
    IF \/ WalkFails(f, projectPath)
       \/ \E i \in 1..Len(paths) :
             /\ HasSuffix(paths[i], ".go")
             /\ ~HasSuffix(paths[i], "_test.go")
             /\ ~Contains(paths[i], "vendor/")
             /\ scanFile(f, paths[i]).err
    THEN [err |-> TRUE, interfaces |-> <<>>]
    ELSE [err |-> FALSE,
          interfaces |-> Flatten([i \in 1..Len(paths) |-> visit(f, paths[i])])]

ScanProject(f, projectPath) ==
    IF WalkFails(f, projectPath)
    THEN [err |-> TRUE, interfaces |-> <<>>]
    ELSE LET paths == WalkOrder(f, projectPath)
         IN  [err |-> FALSE,
              interfaces |-> Flatten([i \in 1..Len(paths) |-> visit(f, paths[i])])]

\* an import declaration: the local name it binds ("" for none) and the
\* string literal of the path as written, quoting included
ImportSpec(name, value) == [Name |-> name, Path |-> [Value |-> value]]

DetectDependencies_Distinct(src) ==
    IF ~src.parses THEN [err |-> TRUE, dependencies |-> <<>>]
    ELSE LET paths == [i \in 1..Len(src.Imports) |-> Trim(src.Imports[i].Path.Value, "\"")]
             first == SelectSeq([i \in 1..Len(paths) |-> i],
                                LAMBDA i : \A j \in 1..(i - 1) : paths[j] # paths[i])
         IN  [err |-> FALSE,
              dependencies |-> [i \in 1..Len(first) |-> paths[first[i]]]]

\* DetectDependencies on a file that go/parser turns into src
DetectDependencies(src) ==
    IF ~src.parses THEN [err |-> TRUE, dependencies |-> <<>>]
    ELSE [err |-> FALSE,
          dependencies |-> [i \in 1..Len(src.Imports) |->
                              Trim(src.Imports[i].Path.Value, "\"")]]

\* the paths ScanProject hands to scanFile: the walk up to the first directory
\* it cannot list, without the paths the callback skips
ParsedFiles(f, root) ==
    IF ~Exists(f, root) THEN <<>>
    ELSE LET paths == WalkOrder(f, root)
             stops == {i \in 1..Len(paths) : paths[i] \in f.dirs \cap f.unreadable}
             last == IF stops = {} THEN Len(paths)
                     ELSE (CHOOSE i \in stops : \A j \in stops : i <= j) - 1
         IN  SelectSeq(SubSeq(paths, 1, last),
                       LAMBDA q : /\ HasSuffix(q, ".go")
                                  /\ ~HasSuffix(q, "_test.go")
                                  /\ ~Contains(q, "vendor/")
                                  /\ q \in f.files)

\* length in bytes of a source file, and the width of its lines
FileSize(p) ==
    CASE p = "/work/proj/greeter.go" -> 60
      [] p = "/work/proj/store.go" -> 120
      [] p = "/work/proj/broken.go" -> 10
      [] OTHER -> 40

LineWidth(p) ==
    CASE p = "/work/proj/greeter.go" -> 12
      [] p = "/work/proj/store.go" -> 14
      [] OTHER -> 10

\* offset of a type declaration in its file, and the line of an offset
DeclOffset(p, decl) == (decl.line - 1) * LineWidth(p) + 5

LineOf(p, offset) == (offset \div LineWidth(p)) + 1

\* token.NewFileSet
NewFileSet == <<>>

\* token.FileSet.Base: the base of the next file
NextBase(fset) ==
    IF fset = <<>> THEN 1 ELSE fset[Len(fset)].base + fset[Len(fset)].size + 1

\* token.FileSet.AddFile, as parser.ParseFile calls it; by: the session that
\* added the file (history)
AddFile(fset, name, base, by) ==
    Append(fset, [name |-> name, base |-> base, size |-> FileSize(name), by |-> by])

\* the file set after one ScanProject call that is not interleaved with another
RECURSIVE AddFiles(_, _, _)
AddFiles(fset, names, by) ==
    IF names = <<>> THEN fset
    ELSE AddFiles(AddFile(fset, Head(names), NextBase(fset), by), Tail(names), by)

\* s.fileSet.Position(pos).Line: the last file whose base is not above pos,
\* when pos lies in it; 0 for no position
Position(fset, pos) ==
    LET below == {i \in 1..Len(fset) : fset[i].base <= pos} IN
    IF below = {} THEN 0
    ELSE LET i == CHOOSE i \in below : \A j \in below : j <= i
         IN  IF pos <= fset[i].base + fset[i].size
             THEN LineOf(fset[i].name, pos - fset[i].base)
             ELSE 0

---------------------------------------------------------------------------
(* the protocol dispatcher (package server of mcp.go) *)

\* MCPRequest
MCPRequest(id, method, params) ==
    [jsonrpc |-> "2.0", id |-> id, method |-> method, params |-> params]

\* a nil *MCPResponse
NilResponse == [nil |-> TRUE]

NoResult == [t |-> "nil"]
NoError == [t |-> "nil"]

\* MCPResponse
MCPResponse(id, result, error) ==
    [jsonrpc |-> "2.0", id |-> id, result |-> result, error |-> error]

MCPError(code, message, data) ==
    [t |-> "error", code |-> code, message |-> message, data |-> data]

\* the content result of a tool: one text item
TextContent(text) == [t |-> "content", text |-> text]

\* what a handler returns and does: its response, the filesystem it leaves and
\* the delegate calls it made
Outcome(r, f, w) == [resp |-> r, fs |-> f, work |-> w]

errorResponse_DropId(id, code, message, data) ==
    MCPResponse(JNull, NoResult, MCPError(code, message, data))

errorResponse(id, code, message, data) ==
    MCPResponse(id, NoResult, MCPError(code, message, data))

\* the tools of handleToolsList: name and the "required" list of its input schema
Tools ==
    <<[Name |-> "discover_interfaces",
       Properties |-> {"project_path", "include_patterns", "exclude_patterns"},
       Required |-> <<"project_path">>],
      [Name |-> "generate_mock",
       Properties |-> {"interface_name", "package_path", "output_dir", "with_expecter",
                       "filename_format"},
       Required |-> <<"interface_name", "package_path">>],
      [Name |-> "update_mockery_config",
       Properties |-> {"project_path", "interfaces", "global_config"},
       Required |-> <<"project_path">>]>>

handleToolsList(request) ==
    MCPResponse(request.id, [t |-> "tools", tools |-> Tools], NoError)

handleInitialize(request) ==
    MCPResponse(request.id,
                [t |-> "initialize", protocolVersion |-> "2024-11-05",
                 name |-> "mockery-mcp-server", version |-> "1.0.0"],
                NoError)

handleInitialized_AlwaysAnswer(request) ==
    MCPResponse(request.id, [t |-> "status", status |-> "initialized"], NoError)

handleInitialized(request) ==
    IF request.id = JNull THEN NilResponse
    ELSE MCPResponse(request.id, [t |-> "status", status |-> "initialized"], NoError)

handlePing(request) ==
    MCPResponse(request.id, [t |-> "status", status |-> "pong"], NoError)

\* os.Stat
Stat(f, p) ==
    IF Exists(f, p) THEN "ok"
    ELSE IF (Ancestors(p) \ {p}) \cap f.files # {} THEN "ENOTDIR"
    ELSE "ENOENT"

RECURSIVE formatInterfaceList(_)
formatInterfaceList(interfaces) ==
    IF interfaces = <<>> THEN ""
    ELSE LET n == Len(interfaces)
             iface == interfaces[n]
         IN  formatInterfaceList(SubSeq(interfaces, 1, n - 1))
             \o (IF n > 1 THEN "\n" ELSE "")
             \o "- " \o iface.name \o " (" \o iface.package \o " package) - "
             \o ToString(iface.method_count) \o " methods\n  File: " \o iface.file_path

\* handleDiscoverInterfaces: the response that reports the interfaces found
discoverResult(requestID, projectPath, interfaces) ==
    LET simplified == [i \in 1..Len(interfaces) |->
                         [name |-> interfaces[i].Name,
                          package |-> interfaces[i].Package,
                          file_path |-> interfaces[i].FilePath,
                          method_count |-> Len(interfaces[i].Methods)]]
    IN  MCPResponse(requestID,
                    TextContent("Found " \o ToString(Len(interfaces))
                                \o " interfaces in " \o projectPath \o ":\n\n"
                                \o formatInterfaceList(simplified)),
                    NoError)

handleDiscoverInterfaces(requestID, args, f) ==
    LET arg == Lookup(args, "project_path") IN
    IF arg.t # "string"
    THEN Outcome(errorResponse(requestID, -32602, "Missing or invalid project_path", JNull),
                 f, {})
    ELSE
    LET absPath == Abs(arg.s) IN
    IF Stat(f, absPath) = "ENOENT"
    THEN Outcome(errorResponse(requestID, -32603,
                               "Project path does not exist: " \o absPath,
                               [t |-> "error", s |-> "stat " \o absPath
                                                     \o ": no such file or directory"]),
                 f, {"stat"})
    ELSE
    LET scan == ScanProject(f, absPath) IN
    IF scan.err
    THEN Outcome(errorResponse(requestID, -32603, "Failed to scan project",
                               JStr("failed to scan project")),
                 f, {"stat", "scan"})
    ELSE Outcome(discoverResult(requestID, absPath, scan.interfaces), f, {"stat", "scan"})

\* the outcomes of running the external tool
ExecOutcomes == {"exit0", "exit1"}

\* GenerateMock: the output directory, the filename and the arguments of the
\* tool for a request
OutputDirectory(request) ==
    IF request.OutputDir = "" THEN Join(Abs(request.PackagePath), "mocks")
    ELSE IF ~IsAbs(request.OutputDir) THEN Abs(request.OutputDir)
    ELSE request.OutputDir

MockFilename(request) ==
    IF request.FilenameFormat = ""
    THEN "mock_" \o ToLower(request.InterfaceName) \o ".go"
    ELSE ReplaceAll(request.FilenameFormat, "{{.InterfaceName}}", request.InterfaceName)

MockeryArgs(request) ==
    <<"--name=" \o request.InterfaceName,
      "--dir=" \o Abs(request.PackagePath),
      "--output=" \o OutputDirectory(request),
      "--filename=" \o MockFilename(request)>>
    \o (IF request.WithExpector THEN <<"--with-expecter">> ELSE <<>>)

NotInPath == "mockery command not found in PATH. Please install mockery: go install github.com/vektra/mockery/v2@latest"

GenerateMock_NoLookPath(f, lp, exec, request) ==
    LET absPackagePath == Abs(request.PackagePath)
        outputDir == OutputDirectory(request)
    IN
    IF ~MkdirAllOk(f, outputDir)
    THEN [err |-> "failed to create output directory", GeneratedFile |-> "",
          fs |-> MkdirAll(f, outputDir), work |-> {"mkdir"}, args |-> <<>>]
    ELSE
    LET f1 == MkdirAll(f, outputDir)
        mockFilename == MockFilename(request)
        args == MockeryArgs(request)
    IN
    IF absPackagePath \notin f1.dirs \/ exec # "exit0"
    THEN [err |-> "mockery failed", GeneratedFile |-> "",
          fs |-> f1, work |-> {"mkdir", "lookpath", "exec"}, args |-> args]
    ELSE
    LET generatedFile == Join(outputDir, mockFilename)
    IN  [err |-> "", GeneratedFile |-> generatedFile,
         fs |-> [f1 EXCEPT !.files = @ \cup {generatedFile}],
         work |-> {"mkdir", "lookpath", "exec"}, args |-> args]

\* GenerateMock of the invoker. lp: whether LookPath finds the tool; exec: how
\* the tool exits when it is started. err = "" stands for a nil error.
GenerateMock(f, lp, exec, request) ==
    LET absPackagePath == Abs(request.PackagePath)
        outputDir == OutputDirectory(request)
    IN
    IF ~MkdirAllOk(f, outputDir)
    THEN [err |-> "failed to create output directory", GeneratedFile |-> "",
          fs |-> MkdirAll(f, outputDir), work |-> {"mkdir"}, args |-> <<>>]
    ELSE
    LET f1 == MkdirAll(f, outputDir)
        mockFilename == MockFilename(request)
        args == MockeryArgs(request)
    IN
    IF ~lp
    THEN [err |-> NotInPath,
          GeneratedFile |-> "", fs |-> f1, work |-> {"mkdir", "lookpath"}, args |-> args]
    ELSE
    \* the process starts in absPackagePath; it cannot start in a missing directory
    IF absPackagePath \notin f1.dirs \/ exec # "exit0"
    THEN [err |-> "mockery failed", GeneratedFile |-> "",
          fs |-> f1, work |-> {"mkdir", "lookpath", "exec"}, args |-> args]
    ELSE
    LET generatedFile == Join(outputDir, mockFilename)
    IN  [err |-> "", GeneratedFile |-> generatedFile,
         fs |-> [f1 EXCEPT !.files = @ \cup {generatedFile}],
         work |-> {"mkdir", "lookpath", "exec"}, args |-> args]

\* handleGenerateMock: the request it builds from arguments that have passed
\* its checks
generationRequest(args) ==
    LET outputDir == Lookup(args, "output_dir")
        withExpector == Lookup(args, "with_expecter")
        filenameFormat == Lookup(args, "filename_format")
    IN  [InterfaceName |-> Lookup(args, "interface_name").s,
         PackagePath |-> Lookup(args, "package_path").s,
         OutputDir |-> IF outputDir.t = "string" THEN outputDir.s ELSE "",
         WithExpector |-> IF withExpector.t = "bool" THEN withExpector.b ELSE TRUE,
         FilenameFormat |-> IF filenameFormat.t = "string" THEN filenameFormat.s ELSE ""]

\* handleGenerateMock: the response to a generation that failed with err
generationFailed(requestID, err) ==
    errorResponse(requestID, -32603, "Failed to generate mock", JStr(err))

\* handleGenerateMock: the response to a generation that wrote generatedFile
generationResult(requestID, request, generatedFile) ==
    MCPResponse(requestID,
                TextContent("Mock generated successfully:\n- Interface: "
                            \o request.InterfaceName \o "\n- Package: "
                            \o request.PackagePath \o "\n- Generated: "
                            \o generatedFile),
                NoError)

handleGenerateMock(requestID, args, f, lp, exec) ==
    IF Lookup(args, "interface_name").t # "string"
    THEN Outcome(errorResponse(requestID, -32602, "Missing or invalid interface_name", JNull),
                 f, {})
    ELSE IF Lookup(args, "package_path").t # "string"
    THEN Outcome(errorResponse(requestID, -32602, "Missing or invalid package_path", JNull),
                 f, {})
    ELSE
    LET request == generationRequest(args)
        g == GenerateMock(f, lp, exec, request)
    IN
    IF g.err # ""
    THEN Outcome(generationFailed(requestID, g.err), g.fs, g.work)
    ELSE Outcome(generationResult(requestID, request, g.GeneratedFile), g.fs, g.work)

handleUpdateMockeryConfig(requestID, args, f) ==
    Outcome(MCPResponse(requestID,
                        TextContent("Mockery configuration updated successfully"),
                        NoError),
            f, {})

\* encoding/json, one key of the object at a time: a key is matched to the
\* field tagged "name" or "arguments" without regard to letter case.  A string
\* sets Name and an object adds its entries to Arguments; null leaves Name and
\* makes Arguments nil; any other value is a type error, which does not stop
\* the decoding of the keys that follow.
RECURSIVE decodeKeys(_, _, _)
decodeKeys(f, keys, toolCall) ==
    IF keys = <<>> THEN toolCall
    ELSE LET k == Head(keys)
             v == f[k]
         IN  decodeKeys(f, Tail(keys),
                 IF ToLower(k) = "name"
                 THEN CASE v.t = "string" -> [toolCall EXCEPT !.Name = v.s]
                        [] v.t = "null" -> toolCall
                        [] OTHER -> [toolCall EXCEPT !.ok = FALSE]
                 ELSE IF ToLower(k) = "arguments"
                 THEN CASE v.t = "object" ->
                               [toolCall EXCEPT !.Arguments =
                                   [a \in DOMAIN v.f \cup DOMAIN @ |->
                                       IF a \in DOMAIN v.f THEN v.f[a] ELSE @[a]]]
                        [] v.t = "null" -> [toolCall EXCEPT !.Arguments = <<>>]
                        [] OTHER -> [toolCall EXCEPT !.ok = FALSE]
                 ELSE toolCall)

\* json.Unmarshal of the marshalled params into the toolCall struct
\*   struct { Name string; Arguments map[string]interface{} }
\* json.Marshal writes the keys of the params map in byte order.
UnmarshalToolCall(params) ==
    IF params.t = "null" THEN [ok |-> TRUE, Name |-> "", Arguments |-> <<>>]
    ELSE IF params.t # "object" THEN [ok |-> FALSE, Name |-> "", Arguments |-> <<>>]
    ELSE decodeKeys(params.f, SortStrings(DOMAIN params.f),
                    [ok |-> TRUE, Name |-> "", Arguments |-> <<>>])

handleToolsCall_NoDefault(request, f, lp, exec) ==
    LET toolCall == UnmarshalToolCall(request.params) IN
    IF ~toolCall.ok
    THEN Outcome(errorResponse(request.id, -32602, "Invalid params",
                               JStr("json: cannot unmarshal")),
                 f, {})
    ELSE CASE toolCall.Name = "discover_interfaces" ->
                 handleDiscoverInterfaces(request.id, toolCall.Arguments, f)
           [] toolCall.Name = "generate_mock" ->
                 handleGenerateMock(request.id, toolCall.Arguments, f, lp, exec)
           [] OTHER ->
                 handleUpdateMockeryConfig(request.id, toolCall.Arguments, f)

handleToolsCall(request, f, lp, exec) ==
    LET toolCall == UnmarshalToolCall(request.params) IN
    IF ~toolCall.ok
    THEN Outcome(errorResponse(request.id, -32602, "Invalid params",
                               JStr("json: cannot unmarshal")),
                 f, {})
    ELSE CASE toolCall.Name = "discover_interfaces" ->
                 handleDiscoverInterfaces(request.id, toolCall.Arguments, f)
           [] toolCall.Name = "generate_mock" ->
                 handleGenerateMock(request.id, toolCall.Arguments, f, lp, exec)
           [] toolCall.Name = "update_mockery_config" ->
                 handleUpdateMockeryConfig(request.id, toolCall.Arguments, f)
           [] OTHER ->
                 Outcome(errorResponse(request.id, -32601, "Tool not found", JNull), f, {})

handleMCPRequest(request, f, lp, exec) ==
    CASE request.method = "initialize" -> Outcome(handleInitialize(request), f, {})
      [] request.method = "notifications/initialized" ->
             Outcome(handleInitialized(request), f, {})
      [] request.method = "ping" -> Outcome(handlePing(request), f, {})
      [] request.method = "tools/list" -> Outcome(handleToolsList(request), f, {})
      [] request.method = "tools/call" -> handleToolsCall(request, f, lp, exec)
      [] OTHER ->
             Outcome(MCPResponse(request.id, NoResult,
                                 MCPError(-32601, "Method not found", JNull)), f, {})

---------------------------------------------------------------------------
(* config/manager.go: the configuration manager.  A Go map is a reference:
   a configuration holds the address of its package map (NilMap for a nil
   map) and the maps themselves live in a heap, a sequence indexed by
   address. *)

MaxPackages == 2

MaxInterfaces == 2

NilMap == 0

EmptyMap == [k \in {} |-> k]

Deref(heap, ref) == IF ref = NilMap THEN EmptyMap ELSE heap[ref]

\* m[k] = v on a Go map
MapPut(m, k, v) == [x \in DOMAIN m \cup {k} |-> IF x = k THEN v ELSE m[x]]

InterfaceConfig(dir, filename) == [Config |-> [Dir |-> dir, Filename |-> filename]]

Package(interfaces) == [Interfaces |-> interfaces]

MockeryConfig(withExpector, filename, outPkg, packages) ==
    [WithExpector |-> withExpector, Filename |-> filename,
     OutPkg |-> outPkg, Packages |-> packages]

NilError == "<nil>"

\* The errors the loop over one package entry can return: the range over
\* the interfaces of the package visits them in an unspecified order, so the
\* first defective interface met may be any defective interface.
packageErrors(packagePath, packageConfig) ==
    IF packagePath = "" THEN {"package path cannot be empty"}
    ELSE IF Cardinality(DOMAIN packageConfig.Interfaces) = 0
    THEN {"package " \o packagePath \o " has no interfaces configured"}
    ELSE { IF interfaceName = ""
           THEN "interface name cannot be empty in package " \o packagePath
           ELSE "directory is required for interface " \o interfaceName
                    \o " in package " \o packagePath :
             interfaceName \in
                 { n \in DOMAIN packageConfig.Interfaces :
                       n = "" \/ packageConfig.Interfaces[n].Config.Dir = "" } }

ValidateConfigSyntax_DirOptional(heap, config) ==
    IF config.Filename = "" THEN {"filename is required"}
    ELSE IF config.OutPkg = "" THEN {"outpkg is required"}
    ELSE LET packages == Deref(heap, config.Packages)
             errors == UNION { packageErrors(p, packages[p]) \ 
                                  { e \in packageErrors(p, packages[p]) :
                                        HasPrefix(e, "directory is required") } :
                               p \in DOMAIN packages }
         IN  IF errors = {} THEN {NilError} ELSE errors

\* The set of values ValidateConfigSyntax can return for a configuration:
\* the range over the package map visits the entries in an unspecified
\* order and returns at the first defect it meets.
ValidateConfigSyntax(heap, config) ==
    IF config.Filename = "" THEN {"filename is required"}
    ELSE IF config.OutPkg = "" THEN {"outpkg is required"}
    ELSE LET packages == Deref(heap, config.Packages)
             errors == UNION { packageErrors(p, packages[p]) : p \in DOMAIN packages }
         IN  IF errors = {} THEN {NilError} ELSE errors

MergeConfigurations_DeepMerge(heap, base, override) ==
    LET allocate == base.Packages = NilMap
        heap1 == IF allocate THEN Append(heap, EmptyMap) ELSE heap
        ref == IF allocate THEN Len(heap1) ELSE base.Packages
        mine == heap1[ref]
        over == Deref(heap, override.Packages)
        both(p) == Package([n \in DOMAIN mine[p].Interfaces \cup DOMAIN over[p].Interfaces |->
                               IF n \in DOMAIN over[p].Interfaces
                               THEN over[p].Interfaces[n] ELSE mine[p].Interfaces[n]])
        merged == [p \in DOMAIN mine \cup DOMAIN over |->
                      IF p \in DOMAIN over /\ p \in DOMAIN mine THEN both(p)
                      ELSE IF p \in DOMAIN over THEN over[p] ELSE mine[p]]
    IN  [result |-> MockeryConfig(
                        IF override.WithExpector THEN override.WithExpector
                        ELSE base.WithExpector,
                        IF override.Filename # "" THEN override.Filename ELSE base.Filename,
                        IF override.OutPkg # "" THEN override.OutPkg ELSE base.OutPkg,
                        ref),
         heap |-> [heap1 EXCEPT ![ref] = merged]]

\* result := *base copies the fields of base, the address of its package map
\* included; the entries of the override are then stored through that
\* address (or into a fresh map when base has none).
MergeConfigurations(heap, base, override) ==
    LET allocate == base.Packages = NilMap
        heap1 == IF allocate THEN Append(heap, EmptyMap) ELSE heap
        ref == IF allocate THEN Len(heap1) ELSE base.Packages
        mine == heap1[ref]
        over == Deref(heap, override.Packages)
        merged == [p \in DOMAIN mine \cup DOMAIN over |->
                      IF p \in DOMAIN over THEN over[p] ELSE mine[p]]
    IN  [result |-> MockeryConfig(
                        IF override.WithExpector THEN override.WithExpector
                        ELSE base.WithExpector,
                        IF override.Filename # "" THEN override.Filename ELSE base.Filename,
                        IF override.OutPkg # "" THEN override.OutPkg ELSE base.OutPkg,
                        ref),
         heap |-> [heap1 EXCEPT ![ref] = merged]]

\* filepath.Dir: the path up to and including its last separator, cleaned
\* (the empty string, which Clean turns into ".", when it has no separator)
Dir(p) ==
    LET slashes == {i \in 1..Len(p) : SubSeq(p, i, i) = "/"}
        last == CHOOSE i \in slashes : \A j \in slashes : j <= i
    IN  IF slashes = {} THEN Clean("")
        ELSE Clean(SubSeq(p, 1, last))

\* The kernel's lookup of a path as it is written, element by element from
\* the root or the working directory: every element before the last must
\* name an existing directory ("", "." and ".." name the directory reached,
\* or its parent), and so must the last when it is "", "." or "..". The
\* result is the errno, the clean path of the entry the lookup ended at, and
\* whether it ended at the last element as a name in an existing directory
\* (the case in which open can create the file).
PathLookup(f, p) ==
    LET RECURSIVE From(_, _)
        From(d, elems) ==
            IF elems = <<>> THEN [errno |-> "ok", path |-> d, last |-> FALSE]
            ELSE LET next == Join(d, Head(elems)) IN
                 IF Len(elems) = 1 /\ Head(elems) \notin {"", ".", ".."}
                 THEN [errno |-> IF Exists(f, next) THEN "ok" ELSE "ENOENT",
                       path |-> next, last |-> TRUE]
                 ELSE IF next \in f.dirs THEN From(next, Tail(elems))
                 ELSE [errno |-> IF next \in f.files THEN "ENOTDIR" ELSE "ENOENT",
                       path |-> next, last |-> FALSE]
    IN  IF p = "" THEN [errno |-> "ENOENT", path |-> "", last |-> FALSE]
        ELSE From(StartOf(p), Elements(p))

\* The YAML document of a configuration file: a mapping from the keys present
\* to their values; text that is no YAML mapping of this shape is Garbage.
Garbage == [garbage |-> TRUE]

NilConfig == [nil |-> TRUE]

\* dir and filename are omitempty: an empty value leaves the key out
settingsDocument(settings) ==
    [k \in {x \in {"dir", "filename"} :
                (IF x = "dir" THEN settings.Dir ELSE settings.Filename) # ""} |->
        IF k = "dir" THEN settings.Dir ELSE settings.Filename]

packagesDocument(packages) ==
    [p \in DOMAIN packages |->
        [interfaces |->
            [n \in DOMAIN packages[p].Interfaces |->
                [config |-> settingsDocument(packages[p].Interfaces[n].Config)]]]]

yamlMarshal_FlagOn(heap, config) ==
    [k \in {"with-expecter", "filename", "outpkg", "packages"} |->
        CASE k = "with-expecter" -> TRUE
          [] k = "filename" -> config.Filename
          [] k = "outpkg" -> config.OutPkg
          [] OTHER -> packagesDocument(Deref(heap, config.Packages))]

\* yaml.Marshal(config): every top-level key is written; a nil package map
\* is written as an empty mapping
yamlMarshal(heap, config) ==
    [k \in {"with-expecter", "filename", "outpkg", "packages"} |->
        CASE k = "with-expecter" -> config.WithExpector
          [] k = "filename" -> config.Filename
          [] k = "outpkg" -> config.OutPkg
          [] OTHER -> packagesDocument(Deref(heap, config.Packages))]

settingsOf(document) ==
    [Dir |-> IF "dir" \in DOMAIN document THEN document["dir"] ELSE "",
     Filename |-> IF "filename" \in DOMAIN document THEN document["filename"] ELSE ""]

packagesOf(document) ==
    [p \in DOMAIN document |->
        Package([n \in DOMAIN document[p].interfaces |->
                    [Config |-> settingsOf(document[p].interfaces[n].config)]])]

\* yaml.Unmarshal(yamlData, &config) into a zero configuration: a key that
\* is absent leaves the zero value; a packages mapping makes a fresh map
yamlUnmarshal(document) ==
    IF document = Garbage THEN [err |-> TRUE, config |-> NilConfig, heap |-> <<>>]
    ELSE LET has(k) == k \in DOMAIN document IN
         [err |-> FALSE,
          config |-> MockeryConfig(
                         IF has("with-expecter") THEN document["with-expecter"] ELSE FALSE,
                         IF has("filename") THEN document["filename"] ELSE "",
                         IF has("outpkg") THEN document["outpkg"] ELSE "",
                         IF has("packages") THEN 1 ELSE NilMap),
          heap |-> IF has("packages") THEN <<packagesOf(document["packages"])>> ELSE <<>>]

\* The outcomes of WriteConfigFile: the error returned and the filesystem
\* after the call (one outcome per error the validation can return).
\* os.MkdirAll gets the cleaned directory of the path, os.WriteFile the path
\* as it is written: it fails when an element before the last names no
\* directory, or when the path names a directory, and otherwise creates or
\* truncates the file the path leads to.
WriteConfigFile(heap, f, config, filePath) ==
    LET dir == Dir(filePath)
        f1 == MkdirAll(f, dir)
        at == PathLookup(f1, filePath)
    IN  IF ValidateConfigSyntax(heap, config) # {NilError}
        THEN {[err |-> "invalid configuration: " \o e, fs |-> f] :
                 e \in ValidateConfigSyntax(heap, config)}
        ELSE IF ~MkdirAllOk(f, dir)
        THEN {[err |-> "failed to create directory " \o dir, fs |-> f1]}
        ELSE IF ~at.last \/ at.path \in f1.dirs
        THEN {[err |-> "failed to write configuration file " \o filePath, fs |-> f1]}
        ELSE {[err |-> NilError,
               fs |-> [f1 EXCEPT !.files = @ \cup {at.path},
                                 !.data = MapPut(@, at.path, yamlMarshal(heap, config))]]}

\* The outcomes of ReadConfigFile: the error, the configuration returned
\* (NilConfig with an error) and the heap its package map lives in.
ReadConfigFile(f, filePath) ==
    LET at == PathLookup(f, filePath)
        read == yamlUnmarshal(f.data[at.path])
        none(e) == [err |-> e, config |-> NilConfig, heap |-> <<>>]
    IN  IF at.errno = "ENOENT"
        THEN {none("configuration file " \o filePath \o " does not exist")}
        ELSE IF at.errno # "ok" \/ at.path \notin f.files
        THEN {none("failed to read configuration file " \o filePath)}
        ELSE IF read.err
        THEN {none("failed to unmarshal configuration from " \o filePath)}
        ELSE IF ValidateConfigSyntax(read.heap, read.config) # {NilError}
        THEN {none("invalid configuration in " \o filePath \o ": " \o e) :
                 e \in ValidateConfigSyntax(read.heap, read.config)}
        ELSE {[err |-> NilError, config |-> read.config, heap |-> read.heap]}

\* NewMockeryConfigManager: the default configuration refers to a fresh,
\* empty package map
NewMockeryConfigManager ==
    [defaultConfig |-> MockeryConfig(TRUE, "mock_{{.InterfaceName}}.go", "mocks", 1),
     heap |-> <<EmptyMap>>]

MockGenerationRequest(interfaceName, packagePath, filenameFormat, withExpector) ==
    [InterfaceName |-> interfaceName, PackagePath |-> packagePath,
     FilenameFormat |-> filenameFormat, WithExpector |-> withExpector]

GenerateConfig_KeepCase(m, request) ==
    LET config == m.defaultConfig
        allocate == config.Packages = NilMap
        heap1 == IF allocate THEN Append(m.heap, EmptyMap) ELSE m.heap
        ref == IF allocate THEN Len(heap1) ELSE config.Packages
        interfaceConfig ==
            InterfaceConfig(request.PackagePath,
                            IF request.FilenameFormat = ""
                            THEN "mock_" \o request.InterfaceName \o ".go"
                            ELSE request.FilenameFormat)
        packageConfig == Package(MapPut(EmptyMap, request.InterfaceName, interfaceConfig))
    IN  [config |-> MockeryConfig(IF request.WithExpector THEN TRUE
                                  ELSE config.WithExpector,
                                  config.Filename, config.OutPkg, ref),
         manager |-> [m EXCEPT !.heap =
                         [heap1 EXCEPT ![ref] =
                             MapPut(@, request.PackagePath, packageConfig)]]]

\* config := m.defaultConfig copies the fields of the default configuration,
\* the address of its package map included; the package entry of the request
\* is stored through that address.  The value: the configuration returned and
\* the manager after the call.
GenerateConfig(m, request) ==
    LET config == m.defaultConfig
        allocate == config.Packages = NilMap
        heap1 == IF allocate THEN Append(m.heap, EmptyMap) ELSE m.heap
        ref == IF allocate THEN Len(heap1) ELSE config.Packages
        interfaceConfig ==
            InterfaceConfig(request.PackagePath,
                            IF request.FilenameFormat = ""
                            THEN "mock_" \o ToLower(request.InterfaceName) \o ".go"
                            ELSE request.FilenameFormat)
        packageConfig == Package(MapPut(EmptyMap, request.InterfaceName, interfaceConfig))
    IN  [config |-> MockeryConfig(IF request.WithExpector THEN TRUE
                                  ELSE config.WithExpector,
                                  config.Filename, config.OutPkg, ref),
         manager |-> [m EXCEPT !.heap =
                         [heap1 EXCEPT ![ref] =
                             MapPut(@, request.PackagePath, packageConfig)]]]

\* UpdateInterfaceConfig on a configuration whose package map lives in heap:
\* the settings are stored under the interface name in the interface map of
\* the package (a fresh one when the package is new), and the package is
\* stored back, through the address the configuration holds.  The value: the
\* configuration and the heap after the call; the error returned is nil.
UpdateInterfaceConfig(heap, config, packagePath, interfaceName, settings) ==
    LET allocate == config.Packages = NilMap
        heap1 == IF allocate THEN Append(heap, EmptyMap) ELSE heap
        ref == IF allocate THEN Len(heap1) ELSE config.Packages
        exists == packagePath \in DOMAIN heap1[ref]
        packageConfig == IF exists THEN heap1[ref][packagePath] ELSE Package(EmptyMap)
        updated == Package(MapPut(packageConfig.Interfaces, interfaceName,
                                  [Config |-> settings]))
    IN  [err |-> NilError,
         config |-> [config EXCEPT !.Packages = ref],
         heap |-> [heap1 EXCEPT ![ref] = MapPut(@, packagePath, updated)]]

\* GetDefaultConfig returns a copy of the fields of the default configuration
GetDefaultConfig(m) == m.defaultConfig

---------------------------------------------------------------------------
(* models: the project manager and its job registry *)

\* The registry pm.jobs maps a job id to the address of a job; the jobs live
\* in a heap, a sequence indexed by address.  now is the latest reading of
\* the clock (time.Now).
JobStatusPending == "pending"
JobStatusRunning == "running"
JobStatusCompleted == "completed"
JobStatusFailed == "failed"
JobStatusCancelled == "cancelled"

\* a nil *time.Time
NoTime == 0

\* NewProjectManager: no job registered, no job allocated
NewProjectManager == [jobs |-> EmptyMap, heap |-> <<>>, now |-> 0]

\* CreateJob with the id that generateID returns and the clock reading t;
\* updated records whether UpdateJobStatus has reached the job (history)
CreateJob(pm, id, t, projectID) ==
    LET job == [ID |-> id, ProjectID |-> projectID, Status |-> JobStatusPending,
                CreatedAt |-> t, StartedAt |-> NoTime, CompletedAt |-> NoTime,
                updated |-> FALSE]
    IN  [jobs |-> MapPut(pm.jobs, id, Len(pm.heap) + 1),
         heap |-> Append(pm.heap, job),
         now |-> t]

UpdateJobStatus_NoStart(pm, jobID, status, t) ==
    IF jobID \in DOMAIN pm.jobs
    THEN [pm EXCEPT !.heap[pm.jobs[jobID]] =
                        [@ EXCEPT !.Status = status,
                                  !.CompletedAt =
                                      IF status \in {JobStatusCompleted, JobStatusFailed,
                                                     JobStatusCancelled} THEN t ELSE @,
                                  !.updated = TRUE],
                    !.now = t]
    ELSE pm

UpdateJobStatus(pm, jobID, status, t) ==
    IF jobID \in DOMAIN pm.jobs
    THEN [pm EXCEPT !.heap[pm.jobs[jobID]] =
                        [@ EXCEPT !.Status = status,
                                  !.StartedAt =
                                      IF status = JobStatusRunning THEN t ELSE @,
                                  !.CompletedAt =
                                      IF status \in {JobStatusCompleted, JobStatusFailed,
                                                     JobStatusCancelled} THEN t ELSE @,
                                  !.updated = TRUE],
                    !.now = t]
    ELSE pm

---------------------------------------------------------------------------
(* inputs *)

UnknownMethod == "resources/list"

Methods == {"initialize", "notifications/initialized", "ping", "tools/list",
            "tools/call", UnknownMethod}

CatalogNames == {Tools[i].Name : i \in 1..Len(Tools)}

\* params of a tools/call: {"name": name, "arguments": {k: v, ...}}
CallParams(name, arguments) == JObj([k \in {"name", "arguments"} |->
                                       IF k = "name" THEN name ELSE arguments])

\* the functions from one subset of the keys to the values
ArgMaps(keys, vals) == UNION {[K -> vals] : K \in SUBSET keys}

ProjectPaths == {"/work/proj", "proj", "/work/missing", "/work/proj/greeter.go/sub",
                 "/work/proj/", "./proj/../proj"}

ProjectArgs == ArgMaps({"project_path"}, {JNum(7)} \cup {JStr(p) : p \in ProjectPaths})

\* generate_mock arguments: the required ones missing, wrong or given, and the
\* optional ones varied once the required ones are given
GenerateArgs ==
    ArgMaps({"interface_name", "package_path"},
            {JNum(7), JStr("Greeter"), JStr("/work/proj")})
    \cup {[k \in {"interface_name", "package_path"} \cup DOMAIN opt |->
             IF k = "interface_name" THEN JStr("Greeter")
             ELSE IF k = "package_path" THEN JStr(pp)
             ELSE opt[k]] :
          pp \in {"/work/proj", "/work/missing"},
          opt \in ArgMaps({"output_dir"}, {JStr("out"), JStr("./mocks"),
                                          JStr("/work/proj/greeter.go"),
                                          JStr("/work/missing/../gen"),
                                          JStr("/work/proj/greeter.go/../gen"),
                                          JStr("/work/new/../proj/greeter.go/x")})
                  \cup ArgMaps({"with_expecter"}, {JBool(FALSE)})
                  \cup ArgMaps({"filename_format"}, {JStr("{{.InterfaceName}}_mock.go")})}

ArgsFor(name) == IF name = JStr("generate_mock") THEN GenerateArgs ELSE ProjectArgs

\* params whose keys are spelled in another letter case, once and twice
SpelledParams ==
    LET path == JObj([k \in {"project_path"} |-> JStr("/work/proj")])
        none == JObj([k \in {"include_patterns"} |-> JArr])
    IN  {JObj([k \in {"Name", "Arguments"} |->
                 IF k = "Name" THEN JStr(n) ELSE path]) :
            n \in {"discover_interfaces", "bogus_tool"}}
        \cup {JObj([k \in {"NAME"} |-> JNum(5)]),
              JObj([k \in {"Name", "name"} |->
                      IF k = "Name" THEN JStr("discover_interfaces") ELSE JNull]),
              JObj([k \in {"Name", "name", "arguments"} |->
                      IF k = "Name" THEN JStr("discover_interfaces")
                      ELSE IF k = "name" THEN JStr("bogus_tool") ELSE path]),
              JObj([k \in {"name", "Arguments", "arguments"} |->
                      IF k = "name" THEN JStr("discover_interfaces")
                      ELSE IF k = "Arguments" THEN path ELSE none]),
              JObj([k \in {"name", "ARGUMENTS", "arguments"} |->
                      IF k = "name" THEN JStr("discover_interfaces")
                      ELSE IF k = "ARGUMENTS" THEN JNum(5) ELSE path])}

\* every shape of tools/call params the decoder distinguishes
AllParams ==
    {JNull, JArr}
    \cup SpelledParams
    \cup {JObj([k \in {"arguments"} |-> JObj(m)]) : m \in ProjectArgs}
    \cup {CallParams(name, arguments) :
            name \in {JNum(5)} \cup {JStr(n) : n \in CatalogNames \cup {"bogus_tool"}},
            arguments \in {JNull, JArr}}
    \cup UNION {{CallParams(name, JObj(m)) : m \in ArgsFor(name)} :
                  name \in {JNum(5)} \cup {JStr(n) : n \in CatalogNames \cup {"bogus_tool"}}}

DispatchRequests ==
    {MCPRequest(id, m, JNull) : id \in {JNull, JNum(1), JStr("a")}, m \in Methods}
    \cup {MCPRequest(id, "tools/call", p) : id \in {JNull, JNum(1)}, p \in AllParams}

\* the requests the sessions of the transport specification exchange: each kind
\* of response, with and without an id, and two tool calls that touch the
\* filesystem
TransportRequests ==
    {MCPRequest(id, m, JNull) :
        id \in {JNull, JNum(1)}, m \in {"notifications/initialized", "ping", UnknownMethod}}
    \cup {MCPRequest(JNum(1), m, JNull) : m \in {"initialize", "tools/call"}}
    \cup {MCPRequest(JNum(2), "tools/call",
                     CallParams(JStr("discover_interfaces"),
                                JObj([k \in {"project_path"} |-> JStr("/work/missing")]))),
          MCPRequest(JNum(2), "tools/call",
                     CallParams(JStr("generate_mock"),
                                JObj([k \in {"interface_name", "package_path"} |->
                                        IF k = "interface_name" THEN JStr("Greeter")
                                        ELSE JStr("/work/missing")]))),
          MCPRequest(JNum(2), "tools/call",
                     CallParams(JStr("generate_mock"),
                                JObj([k \in {"interface_name", "package_path", "output_dir"} |->
                                        IF k = "interface_name" THEN JStr("Greeter")
                                        ELSE IF k = "package_path" THEN JStr("/work/proj")
                                        ELSE JStr("/work/missing/../gen")])))}

\* what one read of a transport yields: a blank line, bytes that do not decode
\* as a request envelope, or a request
EmptyLine == [t |-> "empty"]
Malformed == [t |-> "malformed"]
RequestLine(r) == [t |-> "request", req |-> r]

Lines(requests) == {EmptyLine, Malformed} \cup {RequestLine(r) : r \in requests}

TransportLines == Lines(TransportRequests)

DispatchLines == Lines(DispatchRequests)

NoLine == [t |-> "none"]

Sessions == 0..MaxConns
\* session 0 is the stdio session; the others are socket connections
Conns == Sessions \ {0}

\* the project tree at start-up, and the same tree with a directory that
\* cannot be listed
ProjectTree ==
    [dirs |-> {"/", "/work", "/work/proj", "/work/proj/vendor"},
     files |-> DOMAIN SourceCode,
     unreadable |-> {}]

InitialFilesystems ==
    {ProjectTree, [ProjectTree EXCEPT !.unreadable = {"/work/proj/vendor"}]}

---------------------------------------------------------------------------
(* the transport bindings *)

\* json.Marshal of a *MCPResponse: null for a nil pointer; result and error are
\* omitted when nil (omitempty)
Marshal(r) ==
    IF r = NilResponse THEN [t |-> "null"]
    ELSE [t |-> "object",
          f |-> [k \in {"jsonrpc", "id"}
                       \cup (IF r.result # NoResult THEN {"result"} ELSE {})
                       \cup (IF r.error # NoError THEN {"error"} ELSE {}) |-> r[k]]]

\* one written message: the bytes, whether the whole message went out (on
\* stdout: with the newline that ends it) and, as history, which read it
\* answers
Written(s, r) == [n |-> nread[s], msg |-> Marshal(r), complete |-> TRUE]

TotalRead == LET RECURSIVE Sum(_)
                 Sum(S) == IF S = {} THEN 0
                           ELSE LET x == CHOOSE x \in S : TRUE
                                IN  nread[x] + Sum(S \ {x})
             IN  Sum(Sessions)

\* no library function has been called directly
NoCall == [op |-> "none"]

\* no ScanProject call in progress
NoScan == [root |-> "", todo |-> <<>>, found |-> <<>>, base |-> 0]

InitWith(addrs, filesystems) ==
    /\ addr \in addrs
    /\ fs \in filesystems
    /\ lookPath \in BOOLEAN
    /\ pc = [s \in Sessions |-> IF s = 0 /\ addr = "stdio" THEN "read" ELSE "idle"]
    /\ cur = [s \in Sessions |-> NoLine]
    /\ resp = [s \in Sessions |-> NilResponse]
    /\ out = [s \in Sessions |-> <<>>]
    /\ nread = [s \in Sessions |-> 0]
    /\ work = [s \in Sessions |-> {}]
    /\ werr = [s \in Sessions |-> FALSE]
    /\ bad = [s \in Sessions |-> 0]
    /\ fileSet = NewFileSet
    /\ mu = 0
    /\ scanning = [s \in Sessions |-> NoScan]
    /\ call = NoCall
    /\ configManager = NewMockeryConfigManager
    /\ projectManager = NewProjectManager

Init == InitWith({"stdio", ":8080"}, {ProjectTree})

StdioRead_StopOnMalformed(lines) ==
    /\ addr = "stdio"
    /\ pc[0] = "read"
    /\ \E line \in lines :
         /\ cur' = [cur EXCEPT ![0] = line]
         /\ pc' = [pc EXCEPT ![0] = IF line.t = "request" THEN "handle"
                                    ELSE IF line.t = "malformed" THEN "done"
                                    ELSE "read"]
    /\ nread' = [nread EXCEPT ![0] = @ + 1]
    /\ resp' = [resp EXCEPT ![0] = NilResponse]
    /\ work' = [work EXCEPT ![0] = {}]
    /\ werr' = [werr EXCEPT ![0] = FALSE]
    /\ bad' = [bad EXCEPT ![0] = IF cur'[0] = Malformed THEN @ + 1 ELSE @]
    /\ UNCHANGED <<call, configManager, projectManager, addr, fs, lookPath, out,
                 fileSet, mu, scanning>>

\* HandleStdio: scanner.Scan() yields a line; blank and undecodable lines are
\* skipped, a request goes to the dispatcher
StdioRead(lines) ==
    /\ addr = "stdio"
    /\ pc[0] = "read"
    /\ \E line \in lines :
         /\ cur' = [cur EXCEPT ![0] = line]
         /\ pc' = [pc EXCEPT ![0] = IF line.t = "request" THEN "handle" ELSE "read"]
    /\ nread' = [nread EXCEPT ![0] = @ + 1]
    /\ resp' = [resp EXCEPT ![0] = NilResponse]
    /\ work' = [work EXCEPT ![0] = {}]
    /\ werr' = [werr EXCEPT ![0] = FALSE]
    /\ bad' = [bad EXCEPT ![0] = IF cur'[0] = Malformed THEN @ + 1 ELSE @]
    /\ UNCHANGED <<call, configManager, projectManager, addr, fs, lookPath, out,
                 fileSet, mu, scanning>>

\* HandleStdio: scanner.Scan() returns false (end of input or a read error)
StdioEnd ==
    /\ addr = "stdio"
    /\ pc[0] = "read"
    /\ pc' = [pc EXCEPT ![0] = "done"]
    /\ UNCHANGED <<call, configManager, projectManager, addr, fs, lookPath, cur, resp, out, nread, work, werr, bad,
                 fileSet, mu, scanning>>

\* the absolute path a discover_interfaces call scans
ScanRoot(request) ==
    Abs(Lookup(UnmarshalToolCall(request.params).Arguments, "project_path").s)

\* response := s.handleMCPRequest(&request) as one step: the handler of a
\* session that no other handler runs beside (the stdio session), and the
\* handlers that touch neither the filesystem nor the scanner
Handle(s) ==
    /\ pc[s] = "handle"
    /\ \E exec \in ExecOutcomes :
         LET o == handleMCPRequest(cur[s].req, fs, lookPath, exec)
         IN  /\ resp' = [resp EXCEPT ![s] = o.resp]
             /\ fs' = o.fs
             /\ work' = [work EXCEPT ![s] = o.work]
             /\ fileSet' = IF "scan" \in o.work
                           THEN AddFiles(fileSet, ParsedFiles(fs, ScanRoot(cur[s].req)), s)
                           ELSE fileSet
    /\ pc' = [pc EXCEPT ![s] = "write"]
    /\ UNCHANGED <<call, configManager, projectManager, addr, lookPath, cur, out, nread, werr, bad, mu, scanning>>

\* HandleStdio: a nil response is not written
StdioSkip ==
    /\ pc[0] = "write"
    /\ resp[0] = NilResponse
    /\ pc' = [pc EXCEPT ![0] = "read"]
    /\ UNCHANGED <<call, configManager, projectManager, addr, fs, lookPath, cur, resp, out, nread, work, werr, bad,
                 fileSet, mu, scanning>>

\* HandleStdio: the response line is written to stdout
StdioWrite ==
    /\ pc[0] = "write"
    /\ resp[0] # NilResponse
    /\ out' = [out EXCEPT ![0] = Append(@, Written(0, resp[0]))]
    /\ pc' = [pc EXCEPT ![0] = "read"]
    /\ UNCHANGED <<call, configManager, projectManager, addr, fs, lookPath, cur, resp, nread, work, werr, bad,
                 fileSet, mu, scanning>>

\* HandleStdio: os.Stdout.Write(responseBytes) fails; the error is logged and
\* the loop goes on
StdioWriteFail ==
    /\ pc[0] = "write"
    /\ resp[0] # NilResponse
    /\ werr' = [werr EXCEPT ![0] = TRUE]
    /\ pc' = [pc EXCEPT ![0] = "read"]
    /\ UNCHANGED <<call, configManager, projectManager, addr, fs, lookPath, cur, resp, out, nread, work, bad,
                 fileSet, mu, scanning>>

\* HandleStdio: the response is written and the write of the newline fails;
\* the error is logged and the loop goes on
StdioNewlineFail ==
    /\ pc[0] = "write"
    /\ resp[0] # NilResponse
    /\ out' = [out EXCEPT ![0] = Append(@, [Written(0, resp[0]) EXCEPT !.complete = FALSE])]
    /\ werr' = [werr EXCEPT ![0] = TRUE]
    /\ pc' = [pc EXCEPT ![0] = "read"]
    /\ UNCHANGED <<call, configManager, projectManager, addr, fs, lookPath, cur, resp, nread, work, bad,
                 fileSet, mu, scanning>>

\* handleWebSocket: the upgrade succeeds and the handler enters its loop
Accept(c) ==
    /\ addr # "stdio"
    /\ pc[c] = "idle"
    /\ pc' = [pc EXCEPT ![c] = "read"]
    /\ UNCHANGED <<call, configManager, projectManager, addr, fs, lookPath, cur, resp, out, nread, work, werr, bad,
                 fileSet, mu, scanning>>

\* handleWebSocket: the upgrade fails and the handler returns
UpgradeFail(c) ==
    /\ addr # "stdio"
    /\ pc[c] = "idle"
    /\ pc' = [pc EXCEPT ![c] = "closed"]
    /\ UNCHANGED <<call, configManager, projectManager, addr, fs, lookPath, cur, resp, out, nread, work, werr, bad,
                 fileSet, mu, scanning>>

\* handleWebSocket: conn.ReadJSON yields a message; one that does not decode is
\* a read error and ends the loop
ConnRead(c, lines) ==
    /\ pc[c] = "read"
    /\ \E line \in lines :
         /\ cur' = [cur EXCEPT ![c] = line]
         /\ pc' = [pc EXCEPT ![c] = IF line.t = "request" THEN "handle" ELSE "closed"]
    /\ nread' = [nread EXCEPT ![c] = @ + 1]
    /\ resp' = [resp EXCEPT ![c] = NilResponse]
    /\ work' = [work EXCEPT ![c] = {}]
    /\ werr' = [werr EXCEPT ![c] = FALSE]
    /\ bad' = [bad EXCEPT ![c] = IF cur'[c] = Malformed THEN @ + 1 ELSE @]
    /\ UNCHANGED <<call, configManager, projectManager, addr, fs, lookPath, out,
                 fileSet, mu, scanning>>

ConnReadFail_ClosesAll(c) ==
    /\ pc[c] = "read"
    /\ pc' = [d \in Sessions |-> IF d \in Conns THEN "closed" ELSE pc[d]]
    /\ UNCHANGED <<call, configManager, projectManager, addr, fs, lookPath, cur, resp, out, nread, work, werr, bad,
                 fileSet, mu, scanning>>

\* handleWebSocket: conn.ReadJSON fails (the peer closed, the network failed)
ConnReadFail(c) ==
    /\ pc[c] = "read"
    /\ pc' = [pc EXCEPT ![c] = "closed"]
    /\ UNCHANGED <<call, configManager, projectManager, addr, fs, lookPath, cur, resp, out, nread, work, werr, bad,
                 fileSet, mu, scanning>>

ConnWrite_Prepend(c) ==
    /\ pc[c] = "write"
    /\ out' = [out EXCEPT ![c] = <<Written(c, resp[c])>> \o @]
    /\ pc' = [pc EXCEPT ![c] = "read"]
    /\ UNCHANGED <<call, configManager, projectManager, addr, fs, lookPath, cur, resp, nread, work, werr, bad,
                 fileSet, mu, scanning>>

\* handleWebSocket: conn.WriteJSON(response) sends the encoding of response,
\* whatever response is
ConnWrite(c) ==
    /\ pc[c] = "write"
    /\ out' = [out EXCEPT ![c] = Append(@, Written(c, resp[c]))]
    /\ pc' = [pc EXCEPT ![c] = "read"]
    /\ UNCHANGED <<call, configManager, projectManager, addr, fs, lookPath, cur, resp, nread, work, werr, bad,
                 fileSet, mu, scanning>>

\* handleWebSocket: conn.WriteJSON fails and ends the loop
ConnWriteFail(c) ==
    /\ pc[c] = "write"
    /\ werr' = [werr EXCEPT ![c] = TRUE]
    /\ pc' = [pc EXCEPT ![c] = "closed"]
    /\ UNCHANGED <<call, configManager, projectManager, addr, fs, lookPath, cur, resp, out, nread, work, bad,
                 fileSet, mu, scanning>>

---------------------------------------------------------------------------
(* the handler of a connection, step by step: the handlers of the other
   connections run between its system calls and its uses of the file set *)

\* the request of session c reaches s.scanner.ScanProject
ToolCallOf(c) == UnmarshalToolCall(cur[c].req.params)

ReachesScan(c) ==
    /\ cur[c].req.method = "tools/call"
    /\ ToolCallOf(c).ok
    /\ ToolCallOf(c).Name = "discover_interfaces"
    /\ Lookup(ToolCallOf(c).Arguments, "project_path").t = "string"
    /\ Stat(fs, Abs(Lookup(ToolCallOf(c).Arguments, "project_path").s)) # "ENOENT"

\* the request of session c reaches os.MkdirAll in GenerateMock
ReachesMkdir(c) ==
    /\ cur[c].req.method = "tools/call"
    /\ ToolCallOf(c).ok
    /\ ToolCallOf(c).Name = "generate_mock"
    /\ Lookup(ToolCallOf(c).Arguments, "interface_name").t = "string"
    /\ Lookup(ToolCallOf(c).Arguments, "package_path").t = "string"

ScanBegin_SkipSeen(c) ==
    /\ pc[c] = "handle"
    /\ ReachesScan(c)
    /\ scanning' = [scanning EXCEPT ![c] =
                       [root |-> ScanRoot(cur[c].req),
                        todo |-> SelectSeq(ParsedFiles(fs, ScanRoot(cur[c].req)),
                                           LAMBDA q : \A i \in 1..Len(fileSet) :
                                                          fileSet[i].name # q),
                        found |-> <<>>,
                        base |-> 0]]
    /\ work' = [work EXCEPT ![c] = {"stat", "scan"}]
    /\ pc' = [pc EXCEPT ![c] = "scan"]
    /\ UNCHANGED <<call, configManager, projectManager, addr, fs, lookPath, cur, resp, out, nread, werr, bad, fileSet, mu>>

\* handleDiscoverInterfaces: os.Stat finds the path (or fails for another
\* reason than its absence) and ScanProject is called: the walk starts at the
\* root
ScanBegin(c) ==
    /\ pc[c] = "handle"
    /\ ReachesScan(c)
    /\ scanning' = [scanning EXCEPT ![c] =
                       [root |-> ScanRoot(cur[c].req),
                        todo |-> Pending(fs, <<ScanRoot(cur[c].req)>>),
                        found |-> <<>>,
                        base |-> 0]]
    /\ work' = [work EXCEPT ![c] = {"stat", "scan"}]
    /\ pc' = [pc EXCEPT ![c] = "scan"]
    /\ UNCHANGED <<call, configManager, projectManager, addr, fs, lookPath, cur, resp, out, nread, werr, bad, fileSet, mu>>

\* filepath.Walk comes to a path that is not a regular file: it lists a
\* directory, its entries are what it visits next; a path that is missing and
\* a directory that cannot be listed end the walk, and ScanProject, with an
\* error
Walk(c) ==
    /\ pc[c] = "scan"
    /\ scanning[c].todo # <<>>
    /\ LET path == Head(scanning[c].todo) IN
       /\ path \notin fs.files
       /\ IF path \in fs.dirs \ fs.unreadable
          THEN /\ scanning' = [scanning EXCEPT ![c].todo =
                                  Pending(fs, Entries(fs, path) \o Tail(@))]
               /\ UNCHANGED <<pc, resp>>
          ELSE /\ scanning' = [scanning EXCEPT ![c] = NoScan]
               /\ resp' = [resp EXCEPT ![c] =
                              errorResponse(cur[c].req.id, -32603, "Failed to scan project",
                                            JStr("failed to scan project"))]
               /\ pc' = [pc EXCEPT ![c] = "write"]
    /\ UNCHANGED <<call, configManager, projectManager, addr, fs, lookPath, cur, out, nread, work, werr, bad, fileSet, mu>>

\* the walk comes to a file the callback hands to scanFile:
\* parser.ParseFile -> FileSet.AddFile: lock the mutex and read the base
ScanLock(c) ==
    /\ pc[c] = "scan"
    /\ scanning[c].todo # <<>>
    /\ Head(scanning[c].todo) \in fs.files
    /\ mu = 0
    /\ mu' = c
    /\ scanning' = [scanning EXCEPT ![c].base = NextBase(fileSet)]
    /\ pc' = [pc EXCEPT ![c] = "addfile"]
    /\ UNCHANGED <<call, configManager, projectManager, addr, fs, lookPath, cur, resp, out, nread, work, werr, bad, fileSet>>

\* FileSet.AddFile: append the file at the base read, unlock
ScanAddFile(c) ==
    /\ pc[c] = "addfile"
    /\ fileSet' = AddFile(fileSet, Head(scanning[c].todo), scanning[c].base, c)
    /\ mu' = IF mu = c THEN 0 ELSE mu
    /\ pc' = [pc EXCEPT ![c] = "parse"]
    /\ UNCHANGED <<call, configManager, projectManager, addr, fs, lookPath, cur, resp, out, nread, work, werr, bad, scanning>>

\* the interfaces scanFile extracts from the file just added: the line of each
\* is s.fileSet.Position(typeSpec.Pos()).Line
FileInterfaces(fset, f, filePath, base) ==
    IF scanFile(f, filePath).err THEN <<>>
    ELSE LET src == SourceOf(f, filePath)
             decls == SelectSeq(src.decls, LAMBDA d : d.isInterface)
         IN  [i \in 1..Len(decls) |->
                [extractInterfaceDefinition(decls[i], src.pkg, filePath)
                    EXCEPT !.LineNumber =
                        Position(fset, base + DeclOffset(filePath, decls[i]))]]

\* scanFile parses the file and ScanProject appends its interfaces
ScanParse(c) ==
    /\ pc[c] = "parse"
    /\ scanning' = [scanning EXCEPT
                       ![c].found = @ \o FileInterfaces(fileSet, fs, Head(scanning[c].todo),
                                                        scanning[c].base),
                       ![c].todo = Pending(fs, Tail(@))]
    /\ pc' = [pc EXCEPT ![c] = "scan"]
    /\ UNCHANGED <<call, configManager, projectManager, addr, fs, lookPath, cur, resp, out, nread, work, werr, bad, fileSet, mu>>

\* the walk is over: ScanProject returns and the handler builds its response
ScanDone(c) ==
    /\ pc[c] = "scan"
    /\ scanning[c].todo = <<>>
    /\ resp' = [resp EXCEPT ![c] =
                   discoverResult(cur[c].req.id, scanning[c].root, scanning[c].found)]
    /\ scanning' = [scanning EXCEPT ![c] = NoScan]
    /\ pc' = [pc EXCEPT ![c] = "write"]
    /\ UNCHANGED <<call, configManager, projectManager, addr, fs, lookPath, cur, out, nread, work, werr, bad, fileSet, mu>>

\* the request handleGenerateMock hands to GenerateMock for session c
GenerationOf(c) == generationRequest(UnmarshalToolCall(cur[c].req.params).Arguments)

\* the path os.MkdirAll of session c comes to next
MkdirNext(c) ==
    MkdirNextFrom(fs, StartOf(OutputDirectory(GenerationOf(c))),
                  Elements(OutputDirectory(GenerationOf(c))))

\* session c is in os.MkdirAll of GenerateMock
InMkdirAll(c) == pc[c] = "mkdir" \/ (pc[c] = "handle" /\ ReachesMkdir(c))

\* os.MkdirAll makes the next directory of the output directory that is
\* missing, in the order the path is written; on a regular file it fails and
\* GenerateMock returns its error
Mkdir(c) ==
    /\ InMkdirAll(c)
    /\ MkdirNext(c) # ""
    /\ IF MkdirNext(c) \in fs.files
       THEN /\ resp' = [resp EXCEPT ![c] =
                           generationFailed(cur[c].req.id,
                                            "failed to create output directory")]
            /\ pc' = [pc EXCEPT ![c] = "write"]
            /\ fs' = fs
       ELSE /\ fs' = [fs EXCEPT !.dirs = @ \cup {MkdirNext(c)}]
            /\ pc' = [pc EXCEPT ![c] = "mkdir"]
            /\ resp' = resp
    /\ work' = [work EXCEPT ![c] = {"mkdir"}]
    /\ UNCHANGED <<call, configManager, projectManager, addr, lookPath, cur, out, nread, werr, bad, fileSet, mu, scanning>>

\* the output directory exists: exec.LookPath, then cmd.CombinedOutput starts
\* the tool in the package directory; it cannot start in a missing directory
GenerateStart(c) ==
    /\ InMkdirAll(c)
    /\ MkdirNext(c) = ""
    /\ IF ~lookPath
       THEN /\ resp' = [resp EXCEPT ![c] = generationFailed(cur[c].req.id, NotInPath)]
            /\ work' = [work EXCEPT ![c] = {"mkdir", "lookpath"}]
            /\ pc' = [pc EXCEPT ![c] = "write"]
       ELSE IF Abs(GenerationOf(c).PackagePath) \notin fs.dirs
       THEN /\ resp' = [resp EXCEPT ![c] =
                           generationFailed(cur[c].req.id, "mockery failed")]
            /\ work' = [work EXCEPT ![c] = {"mkdir", "lookpath", "exec"}]
            /\ pc' = [pc EXCEPT ![c] = "write"]
       ELSE /\ resp' = resp
            /\ work' = [work EXCEPT ![c] = {"mkdir", "lookpath", "exec"}]
            /\ pc' = [pc EXCEPT ![c] = "exec"]
    /\ UNCHANGED <<call, configManager, projectManager, addr, fs, lookPath, cur, out, nread, werr, bad, fileSet, mu, scanning>>

\* the tool exits: it has written the file, or it has failed; GenerateMock
\* returns and the handler builds its response
GenerateExit(c) ==
    /\ pc[c] = "exec"
    /\ \E exec \in ExecOutcomes :
          IF exec = "exit0"
          THEN LET generatedFile == Join(OutputDirectory(GenerationOf(c)),
                                         MockFilename(GenerationOf(c)))
               IN  /\ fs' = [fs EXCEPT !.files = @ \cup {generatedFile}]
                   /\ resp' = [resp EXCEPT ![c] =
                                  generationResult(cur[c].req.id, GenerationOf(c),
                                                   generatedFile)]
          ELSE /\ fs' = fs
               /\ resp' = [resp EXCEPT ![c] =
                              generationFailed(cur[c].req.id, "mockery failed")]
    /\ pc' = [pc EXCEPT ![c] = "write"]
    /\ UNCHANGED <<call, configManager, projectManager, addr, lookPath, cur, out, nread, work, werr, bad, fileSet, mu, scanning>>

\* the handler as one step: on the stdio session, and on a connection when it
\* touches neither the filesystem nor the scanner
Dispatch(s) ==
    /\ pc[s] = "handle"
    /\ s \in Conns => ~ReachesScan(s) /\ ~ReachesMkdir(s)
    /\ Handle(s)

Next ==
    \/ TotalRead < MaxReq /\ StdioRead(TransportLines)
    \/ StdioEnd
    \/ StdioSkip
    \/ StdioWrite
    \/ StdioWriteFail
    \/ StdioNewlineFail
    \/ \E s \in Sessions : Dispatch(s)
    \/ \E c \in Conns : ScanBegin(c)
    \/ \E c \in Conns : Walk(c)
    \/ \E c \in Conns : ScanLock(c)
    \/ \E c \in Conns : ScanAddFile(c)
    \/ \E c \in Conns : ScanParse(c)
    \/ \E c \in Conns : ScanDone(c)
    \/ \E c \in Conns : Mkdir(c)
    \/ \E c \in Conns : GenerateStart(c)
    \/ \E c \in Conns : GenerateExit(c)
    \/ \E c \in Conns : Accept(c)
    \/ \E c \in Conns : UpgradeFail(c)
    \/ \E c \in Conns : TotalRead < MaxReq /\ ConnRead(c, TransportLines)
    \/ \E c \in Conns : ConnReadFail(c)
    \/ \E c \in Conns : ConnWrite(c)
    \/ \E c \in Conns : ConnWriteFail(c)

Spec == Init /\ [][Next]_vars

\* the dispatcher on every shape of request: one stdio session
InitDispatch == InitWith({"stdio"}, InitialFilesystems)

NextDispatch ==
    \/ nread[0] < MaxDispatchReq /\ StdioRead(DispatchLines)
    \/ StdioEnd
    \/ Handle(0)
    \/ StdioSkip
    \/ StdioWrite
    \/ StdioWriteFail
    \/ StdioNewlineFail

SpecDispatch == InitDispatch /\ [][NextDispatch]_vars

---------------------------------------------------------------------------
(* concurrent handlers: scans of the project tree on every connection *)

\* number of messages read by all connections of the scanning specification
MaxScanReq == 3

ScanRequests ==
    {MCPRequest(JNum(1), "tools/call",
                CallParams(JStr("discover_interfaces"),
                           JObj([k \in {"project_path"} |-> JStr(pth)]))) :
        pth \in {"/work/proj", "/work/missing"}}
    \cup {MCPRequest(JNum(2), "ping", JNull)}

ScanLines == Lines(ScanRequests)

InitScan == InitWith({":8080"}, InitialFilesystems) /\ lookPath

NextScan ==
    \/ \E c \in Conns : Accept(c)
    \/ \E c \in Conns : UpgradeFail(c)
    \/ \E c \in Conns : TotalRead < MaxScanReq /\ ConnRead(c, ScanLines)
    \/ \E c \in Conns : ConnReadFail(c)
    \/ \E c \in Conns : Dispatch(c)
    \/ \E c \in Conns : ScanBegin(c)
    \/ \E c \in Conns : Walk(c)
    \/ \E c \in Conns : ScanLock(c)
    \/ \E c \in Conns : ScanAddFile(c)
    \/ \E c \in Conns : ScanParse(c)
    \/ \E c \in Conns : ScanDone(c)
    \/ \E c \in Conns : ConnWrite(c)
    \/ \E c \in Conns : ConnWriteFail(c)

SpecScan == InitScan /\ [][NextScan]_vars

---------------------------------------------------------------------------
(* the scanner called directly, as its tests call it *)

\* number of files in a scanned tree
MaxFiles == 2
\* nesting depth of a type expression
MaxTypeDepth == 2
\* number of fields in a parameter list and in a result list
MaxFields == 2

ScannerRoot == "/p"

ScannerPaths == {"/p/a.go", "/p/b_test.go", "/p/sub/c.go", "/p/vendor/d.go",
                 "/p/myvendor/e.go", "/p/notes.txt"}

Method(name) == [name |-> name, embedded |-> FALSE]

\* a type declaration; local: it stands in a function body (history, the
\* scanner does not look at it)
TypeDecl(name, isInterface, line, methods, local) ==
    [name |-> name, isInterface |-> isInterface, line |-> line, methods |-> methods,
     local |-> local]

OneInterface ==
    [parses |-> TRUE, pkg |-> "demo",
     decls |-> <<TypeDecl("Mailer", TRUE, 3, <<Method("Send"), Method("Close"),
                                                Method("Abort")>>, FALSE)>>]

InterfaceAndLocal ==
    [parses |-> TRUE, pkg |-> "demo",
     decls |-> <<TypeDecl("Mailer", TRUE, 3, <<Method("Send")>>, FALSE),
                 TypeDecl("sink", TRUE, 9, <<Method("Flush")>>, TRUE)>>]

StructOnly ==
    [parses |-> TRUE, pkg |-> "demo",
     decls |-> <<TypeDecl("Item", FALSE, 3, <<>>, FALSE)>>]

Unparsable == [parses |-> FALSE, pkg |-> "", decls |-> <<>>]

\* an interface one of whose methods takes an anonymous interface
AnonymousParameter ==
    [parses |-> TRUE, pkg |-> "demo",
     decls |-> <<TypeDecl("Mailer", TRUE, 3,
                          <<[name |-> "Send", embedded |-> FALSE,
                             type |-> FuncType(FieldList(<<Field(<<"to">>, InterfaceType)>>),
                                               FieldList(<<Field(<<>>, InterfaceType)>>))]>>,
                          FALSE)>>]

Contents == {OneInterface, InterfaceAndLocal, StructOnly, Unparsable, AnonymousParameter}

\* the filesystem that holds these sources below the root
Tree(src) ==
    [dirs |-> ({"/", ScannerRoot} \cup UNION {Ancestors(q) : q \in DOMAIN src})
                 \ DOMAIN src,
     files |-> DOMAIN src,
     unreadable |-> {},
     src |-> src]

Trees ==
    {Tree(src) : src \in UNION {[P -> Contents] :
                                  P \in {Q \in SUBSET ScannerPaths :
                                           Cardinality(Q) <= MaxFiles}}}

BaseTypes ==
    {Ident("string"), Ident("T"), SelectorExpr(Ident("context"), "Context"),
     FuncType(FieldList(<<>>), NoFieldList), InterfaceType, StructType}

RECURSIVE TypeExprs(_)
TypeExprs(d) ==
    IF d = 0 THEN BaseTypes
    ELSE LET E == TypeExprs(d - 1)
         IN  E \cup {StarExpr(x) : x \in E}
               \cup {ArrayType(l, x) : l \in {NoExpr, BasicLit("5"), Ident("N")}, x \in E}
               \cup {MapType(Ident("string"), x) : x \in E}
               \cup {ChanType(dir, x) : dir \in {"SEND", "RECV", "BOTH"}, x \in E}
               \cup {Ellipsis(x) : x \in E}

Fields ==
    {Field(names, type) :
        names \in {<<>>, <<"a">>, <<"to", "subject", "body">>},
        type \in {Ident("string"), StarExpr(Ident("T"))}}

FieldLists == {FieldList(fields) : fields \in UNION {[1..n -> Fields] : n \in 0..MaxFields}}

\* the types of interface methods: function types, and the type of an
\* embedded interface
MethodTypes ==
    {FuncType(params, results) :
        params \in FieldLists, results \in {NoFieldList} \cup FieldLists}
    \cup {Ident("Embedded")}

\* number of import declarations in a file
MaxImports == 3

ImportSpecs ==
    {ImportSpec(n, v) : n \in {"", "alias"},
                        v \in {"\"fmt\"", "\"context\"", "\"time\""}}

\* the file DetectDependencies is given: what go/parser makes of it, and
\* whether it can be read at all
ImportFiles ==
    {[parses |-> TRUE, Imports |-> imports, exists |-> TRUE] :
        imports \in UNION {[1..n -> ImportSpecs] : n \in 0..MaxImports}}
    \cup {[parses |-> FALSE, Imports |-> <<>>, exists |-> e] : e \in BOOLEAN}

ImportsPath == "/p/imports.go"

\* parser.ParseFile adds the file to the file set of the scanner once it has
\* read it, before it parses it
CallDetectDependencies ==
    /\ call = NoCall
    /\ \E src \in ImportFiles :
          /\ call' = [op |-> "DetectDependencies", in |-> src,
                      out |-> DetectDependencies(src)]
          /\ fileSet' = IF src.exists
                        THEN AddFile(fileSet, ImportsPath, NextBase(fileSet), 0)
                        ELSE fileSet
    /\ UNCHANGED <<addr, fs, lookPath, pc, cur, resp, out, nread, work, werr, bad,
                   mu, scanning, configManager, projectManager>>

CallScanProject ==
    /\ call = NoCall
    /\ \E tree \in Trees :
          /\ call' = [op |-> "ScanProject", in |-> tree,
                      out |-> ScanProject(tree, ScannerRoot)]
          /\ fileSet' = AddFiles(fileSet, ParsedFiles(tree, ScannerRoot), 0)
    /\ UNCHANGED <<addr, fs, lookPath, pc, cur, resp, out, nread, work, werr, bad,
                   mu, scanning, configManager, projectManager>>

InterfaceNames == {"Mailer", "sink", "Store"}

CallExtractInterfaceMetadata ==
    /\ call = NoCall
    /\ \E tree \in Trees, filePath \in ScannerPaths, interfaceName \in InterfaceNames :
          /\ call' = [op |-> "ExtractInterfaceMetadata",
                      in |-> [tree |-> tree, filePath |-> filePath,
                              interfaceName |-> interfaceName],
                      out |-> ExtractInterfaceMetadata(tree, filePath, interfaceName)]
          /\ fileSet' = IF filePath \in tree.files
                        THEN AddFile(fileSet, filePath, NextBase(fileSet), 0)
                        ELSE fileSet
    /\ UNCHANGED <<addr, fs, lookPath, pc, cur, resp, out, nread, work, werr, bad,
                   mu, scanning, configManager, projectManager>>

CallTypeToString ==
    /\ call = NoCall
    /\ \E expr \in TypeExprs(MaxTypeDepth) :
          call' = [op |-> "typeToString", in |-> expr, out |-> typeToString(expr)]
    /\ UNCHANGED <<serverVars, configManager, projectManager>>

CallExtractMethodSignature ==
    /\ call = NoCall
    /\ \E methodType \in MethodTypes :
          call' = [op |-> "extractMethodSignature", in |-> methodType,
                   out |-> extractMethodSignature("Send", methodType)]
    /\ UNCHANGED <<serverVars, configManager, projectManager>>

InitScanner == InitWith({"stdio"}, {ProjectTree}) /\ lookPath

NextScanner ==
    \/ CallScanProject
    \/ CallExtractInterfaceMetadata
    \/ CallTypeToString
    \/ CallExtractMethodSignature
    \/ CallDetectDependencies

SpecScanner == InitScanner /\ [][NextScanner]_vars

---------------------------------------------------------------------------
(* SpecInvoker: GenerateMock called directly *)

MockRequests ==
    {[InterfaceName |-> n, PackagePath |-> p, OutputDir |-> o,
      WithExpector |-> w, FilenameFormat |-> f] :
        n \in {"Greeter", "Store"},
        p \in {"/work/proj", "proj", "/work/missing", "/work/proj/"},
        o \in {"", "out", "./mocks", "/work/gen", "/work/gen/",
               "/work/proj/greeter.go/mocks", "/work/missing/../gen",
               "/work/proj/mocks/../mocks2", "/work/proj/greeter.go/../gen",
               "/work/new/../proj/greeter.go/x"},
        w \in BOOLEAN,
        f \in {"", "{{.InterfaceName}}_mock.go",
               "{{.InterfaceName}}_{{.InterfaceName}}.go", "fixed.go"}}

CallGenerateMock ==
    /\ call = NoCall
    /\ \E request \in MockRequests, exec \in ExecOutcomes :
          LET g == GenerateMock(fs, lookPath, exec, request) IN
          /\ fs' = g.fs
          /\ call' = [op |-> "GenerateMock", in |-> request, out |-> g]
    /\ UNCHANGED <<addr, lookPath, pc, cur, resp, out, nread, work, werr, bad,
                   fileSet, mu, scanning, configManager, projectManager>>

InitInvoker == InitWith({"stdio"}, InitialFilesystems)

NextInvoker == CallGenerateMock

SpecInvoker == InitInvoker /\ [][NextInvoker]_vars

---------------------------------------------------------------------------
(* SpecConfig: the configuration manager called directly. *)

Maps(keys, values, n) ==
    UNION { [d -> values] : d \in { s \in SUBSET keys : Cardinality(s) <= n } }

ValidatedInterfaces ==
    Maps({"", "Mailer", "Store"},
         {InterfaceConfig("mocks", ""), InterfaceConfig("", "mock_x.go")},
         MaxInterfaces)

ValidatedPackages ==
    { Package(i) : i \in { m \in ValidatedInterfaces :
                               Cardinality(DOMAIN m) <= 1
                               \/ DOMAIN m = {"Mailer", "Store"} } }

ValidatedConfigs ==
    { [heap |-> <<m>>, config |-> MockeryConfig(w, f, o, r)] :
        m \in Maps({"", "pkgX", "pkgY"}, ValidatedPackages, MaxPackages),
        w \in {FALSE}, f \in {"", "mock_{{.InterfaceName}}.go"},
        o \in {"", "mocks"}, r \in {NilMap, 1} }

MergedPackages ==
    { Package(i) : i \in Maps({"Mailer", "Store"},
                               {InterfaceConfig("mocks", "")}, MaxInterfaces) }

MergedMaps == Maps({"pkgX", "pkgY"}, MergedPackages \ {Package(EmptyMap)}, MaxPackages)

MergedPairs ==
    { [heap |-> <<mb, mo>>,
       base |-> MockeryConfig(b[1], b[2], b[3], b[4]),
       override |-> MockeryConfig(o[1], o[2], o[3], o[4])] :
        mb \in MergedMaps, mo \in MergedMaps,
        b \in BOOLEAN \X {"mock_{{.InterfaceName}}.go"} \X {"mocks"} \X {NilMap, 1},
        o \in BOOLEAN \X {"", "{{.InterfaceName}}_mock.go"} \X {"", "fakes"} \X {NilMap, 2} }

CallValidateConfigSyntax ==
    /\ call = NoCall
    /\ \E in \in ValidatedConfigs :
          \E err \in ValidateConfigSyntax(in.heap, in.config) :
              call' = [op |-> "ValidateConfigSyntax", in |-> in, out |-> err]
    /\ UNCHANGED <<serverVars, configManager, projectManager>>

CallMergeConfigurations ==
    /\ call = NoCall
    /\ \E in \in MergedPairs :
          call' = [op |-> "MergeConfigurations", in |-> in,
                   out |-> MergeConfigurations(in.heap, in.base, in.override)]
    /\ UNCHANGED <<serverVars, configManager, projectManager>>

InitConfig == InitWith({"stdio"}, {ProjectTree}) /\ lookPath

NextConfig ==
    \/ CallValidateConfigSyntax
    \/ CallMergeConfigurations

SpecConfig == InitConfig /\ [][NextConfig]_vars

---------------------------------------------------------------------------
(* SpecManager: GenerateConfig, GetDefaultConfig and UpdateInterfaceConfig
   called on one manager *)

GenerateRequests ==
    {MockGenerationRequest(n, p, f, w) :
        n \in {"Mailer", "Store"}, p \in {"pkgX", "pkgY"},
        f \in {"", "{{.InterfaceName}}_mock.go", "fake.go"}, w \in BOOLEAN}

\* the call record keeps the package map of the returned configuration as it
\* is when the call returns
CallGenerateConfig ==
    /\ \E request \in GenerateRequests :
          LET r == GenerateConfig(configManager, request) IN
          /\ configManager' = r.manager
          /\ call' = [op |-> "GenerateConfig", in |-> request,
                      out |-> [config |-> r.config,
                               packages |-> Deref(r.manager.heap, r.config.Packages)]]
    /\ UNCHANGED <<serverVars, projectManager>>

CallGetDefaultConfig ==
    /\ call' = [op |-> "GetDefaultConfig", in |-> [none |-> TRUE],
                out |-> [config |-> GetDefaultConfig(configManager),
                         packages |-> Deref(configManager.heap,
                                            GetDefaultConfig(configManager).Packages)]]
    /\ UNCHANGED <<serverVars, configManager, projectManager>>

\* the settings UpdateInterfaceConfig is given
UpdateSettings == {InterfaceConfig("mocks", "").Config}

\* the configurations UpdateInterfaceConfig is called on: one that
\* GetDefaultConfig returned, and a zero configuration, whose package map is
\* nil.  The map allocated for the latter is the caller's: no configuration of
\* the manager refers to it, and the record of the call keeps its content.
CallUpdateInterfaceConfig ==
    /\ \E config \in {GetDefaultConfig(configManager), MockeryConfig(FALSE, "", "", NilMap)},
          packagePath \in {"pkgX", "pkgY"}, interfaceName \in {"Mailer", "Store"},
          settings \in UpdateSettings :
          LET r == UpdateInterfaceConfig(configManager.heap, config, packagePath,
                                         interfaceName, settings)
          IN  /\ configManager' =
                    [configManager EXCEPT !.heap =
                        IF config.Packages = NilMap THEN @ ELSE r.heap]
              /\ call' = [op |-> "UpdateInterfaceConfig",
                          in |-> [config |-> config, packagePath |-> packagePath,
                                  interfaceName |-> interfaceName, settings |-> settings],
                          out |-> [config |-> r.config,
                                   packages |-> Deref(r.heap, r.config.Packages)]]
    /\ UNCHANGED <<serverVars, projectManager>>

InitManager == InitWith({"stdio"}, {ProjectTree}) /\ lookPath

NextManager ==
    \/ CallGenerateConfig
    \/ CallGetDefaultConfig
    \/ CallUpdateInterfaceConfig

SpecManager == InitManager /\ [][NextManager]_vars

---------------------------------------------------------------------------
(* SpecPersist: WriteConfigFile and ReadConfigFile on one filesystem *)

TwoPackages ==
    MapPut(MapPut(EmptyMap, "pkgX",
                  Package(MapPut(EmptyMap, "Mailer", InterfaceConfig("mocks", "")))),
           "pkgY",
           Package(MapPut(MapPut(EmptyMap, "Store", InterfaceConfig("internal", "s.go")),
                          "Mailer", InterfaceConfig("internal", ""))))

\* configurations handed to WriteConfigFile: three valid ones, then one per
\* defect (no filename, no output package, empty package, empty directory)
WrittenConfigs ==
    {[heap |-> <<TwoPackages>>,
      config |-> MockeryConfig(TRUE, "mock_{{.InterfaceName}}.go", "mocks", 1)],
     [heap |-> <<TwoPackages>>,
      config |-> MockeryConfig(FALSE, "mock_{{.InterfaceName}}.go", "mocks", NilMap)],
     [heap |-> <<TwoPackages>>,
      config |-> MockeryConfig(FALSE, "fake.go", "fakes", 1)],
     [heap |-> <<TwoPackages>>,
      config |-> MockeryConfig(TRUE, "", "mocks", 1)],
     [heap |-> <<TwoPackages>>,
      config |-> MockeryConfig(TRUE, "mock_{{.InterfaceName}}.go", "", 1)],
     [heap |-> <<MapPut(EmptyMap, "pkgX", Package(EmptyMap))>>,
      config |-> MockeryConfig(TRUE, "mock_{{.InterfaceName}}.go", "mocks", 1)],
     [heap |-> <<MapPut(TwoPackages, "pkgZ",
                        Package(MapPut(EmptyMap, "Mailer", InterfaceConfig("", "m.go"))))>>,
      config |-> MockeryConfig(TRUE, "mock_{{.InterfaceName}}.go", "mocks", 1)]}

\* the paths written: an existing file, a file in a directory that does not
\* exist yet, a path below a regular file, a directory; a path through a
\* directory that does not exist and back, a path with a trailing separator,
\* a path through "." and a relative path
WritePaths == {"/work/.mockery.yaml", "/work/new/.mockery.yaml", "/work/blocker/c.yaml",
               "/work", "/work/new/../c.yaml", "/work/new/", "/work/./c.yaml",
               "sub/c.yaml"}

ConfigPaths == {"/work/.mockery.yaml", "/work/bad.yaml", "/work/garbage.yaml",
                "/work/new/.mockery.yaml", "/work/blocker/c.yaml", "/work",
                "/work/new/../c.yaml", "/work/new/", "/work/./c.yaml", "sub/c.yaml",
                "/work/c.yaml", "/work/.mockery.yaml/", "/work/blocker/../bad.yaml"}

\* a tree with a valid configuration file, one that lacks the filename key,
\* one that is no YAML, and a regular file named blocker
ConfigTree ==
    [dirs |-> {"/", "/work"},
     files |-> {"/work/.mockery.yaml", "/work/bad.yaml", "/work/garbage.yaml",
                "/work/blocker"},
     unreadable |-> {},
     data |-> [p \in {"/work/.mockery.yaml", "/work/bad.yaml", "/work/garbage.yaml",
                       "/work/blocker"} |->
                 CASE p = "/work/.mockery.yaml" ->
                          yamlMarshal(<<TwoPackages>>,
                                      MockeryConfig(TRUE, "mock_{{.InterfaceName}}.go",
                                                    "mocks", 1))
                   [] p = "/work/bad.yaml" ->
                          [k \in {"outpkg"} |-> "mocks"]
                   [] OTHER -> Garbage]]

CallWriteConfigFile ==
    /\ \E in \in WrittenConfigs, filePath \in WritePaths :
          \E o \in WriteConfigFile(in.heap, fs, in.config, filePath) :
              /\ fs' = o.fs
              /\ call' = [op |-> "WriteConfigFile",
                          in |-> [heap |-> in.heap, config |-> in.config,
                                  filePath |-> filePath],
                          out |-> [err |-> o.err]]
    /\ UNCHANGED <<addr, lookPath, pc, cur, resp, out, nread, work, werr, bad,
                   fileSet, mu, scanning, configManager, projectManager>>

CallReadConfigFile ==
    /\ \E filePath \in ConfigPaths :
          \E o \in ReadConfigFile(fs, filePath) :
              call' = [op |-> "ReadConfigFile", in |-> [filePath |-> filePath], out |-> o]
    /\ UNCHANGED <<serverVars, configManager, projectManager>>

InitPersist == InitWith({"stdio"}, {ConfigTree}) /\ lookPath

NextPersist ==
    \/ CallWriteConfigFile
    \/ CallReadConfigFile

SpecPersist == InitPersist /\ [][NextPersist]_vars

---------------------------------------------------------------------------
(* SpecJobs: CreateJob and UpdateJobStatus called on one project manager *)

\* number of jobs created
MaxJobs == 2
\* latest reading of the clock
MaxTime == 2

\* the ids generateID can return: it derives them from the clock, so a later
\* call can return an id that is already registered
JobIDs == {"job-a", "job-b"}

JobStatuses == {JobStatusPending, JobStatusRunning, JobStatusCompleted,
                JobStatusFailed, JobStatusCancelled, "paused"}

\* the readings of a clock that does not run backwards
Clock == {t \in 1..MaxTime : t >= projectManager.now}

CallCreateJob ==
    /\ Len(projectManager.heap) < MaxJobs
    /\ \E id \in JobIDs, t \in Clock :
          /\ projectManager' = CreateJob(projectManager, id, t, "project")
          /\ call' = [op |-> "CreateJob", in |-> [projectID |-> "project"],
                      out |-> [job |-> Len(projectManager.heap) + 1]]
    /\ UNCHANGED <<serverVars, configManager>>

CallUpdateJobStatus ==
    /\ \E jobID \in JobIDs \cup {"job-none"}, status \in JobStatuses, t \in Clock :
          /\ projectManager' = UpdateJobStatus(projectManager, jobID, status, t)
          /\ call' = [op |-> "UpdateJobStatus",
                      in |-> [jobID |-> jobID, status |-> status],
                      out |-> [job |-> 0]]
    /\ UNCHANGED <<serverVars, configManager>>

InitJobs == InitWith({"stdio"}, {ProjectTree}) /\ lookPath

NextJobs ==
    \/ CallCreateJob
    \/ CallUpdateJobStatus

SpecJobs == InitJobs /\ [][NextJobs]_vars

---------------------------------------------------------------------------
(* vocabulary of the properties *)

IsRequest(s) == cur[s].t = "request"

ReqOf(s) == cur[s].req

\* the request read last has been through the write step of its loop
Handled(s) == IsRequest(s) /\ pc[s] \in {"read", "done", "closed"}

\* the number of messages written in answer to the latest read
Emitted(s) == Cardinality({i \in DOMAIN out[s] : out[s][i].n = nread[s]})

InitializedNotification(line) ==
    /\ line.t = "request"
    /\ line.req.method = "notifications/initialized"
    /\ line.req.id = JNull

---------------------------------------------------------------------------
(* C1..C10: protocol envelope, transports, error conditions *)

\* C1: on either binding and for every method, a handled request without an id
\* has no response written for it and a handled request with an id has exactly
\* one (a write that returned an error aside).
C1_OneResponseIffId ==
    \A s \in Sessions :
        (Handled(s) /\ ~werr[s]) =>
            Emitted(s) = IF ReqOf(s).id = JNull THEN 0 ELSE 1

\* C2: on the pipe binding, while a notifications/initialized request without
\* an id is dispatched and passes the write step, stdout does not change, and
\* the loop is back at reading the next line.
C2_StdioNotificationSilent ==
    [][(addr = "stdio" /\ pc[0] \in {"handle", "write"}
        /\ InitializedNotification(cur[0]))
       => (out'[0] = out[0]
           /\ pc'[0] = IF pc[0] = "handle" THEN "write" ELSE "read")]_vars

C2_Witness ==
    /\ addr = "stdio"
    /\ pc[0] = "read"
    /\ InitializedNotification(cur[0])
    /\ nread[0] = 1
    /\ out[0] = <<>>

\* C3: on the socket binding, no message is written on a connection in answer
\* to a notifications/initialized request without an id.
C3_SocketNotificationSilent ==
    \A c \in Conns : InitializedNotification(cur[c]) => Emitted(c) = 0

\* C4: every response the dispatcher returns has jsonrpc "2.0", the id of the
\* request it answers and exactly one of result and error; every encoded
\* response written has exactly one of the keys "result" and "error".
C4_ResponseWellFormed ==
    \A s \in Sessions :
        /\ (IsRequest(s) /\ resp[s] # NilResponse) =>
              /\ resp[s].jsonrpc = "2.0"
              /\ resp[s].id = ReqOf(s).id
              /\ (resp[s].result = NoResult) # (resp[s].error = NoError)
        /\ \A i \in DOMAIN out[s] :
              out[s][i].msg.t = "object" =>
                 /\ {"jsonrpc", "id"} \subseteq DOMAIN out[s][i].msg.f
                 /\ out[s][i].msg.f["jsonrpc"] = "2.0"
                 /\ ("result" \in DOMAIN out[s][i].msg.f)
                       # ("error" \in DOMAIN out[s][i].msg.f)

C4_Witness ==
    /\ pc[0] = "read"
    /\ IsRequest(0)
    /\ resp[0] # NilResponse
    /\ resp[0].error # NoError
    /\ resp[0].id = JNum(1)
    /\ Len(out[0]) = 1

\* C5: within a session a read happens only when no request is in progress and
\* the response of the previous request, if any, is the last message written;
\* a write appends the bytes of the response of the request in progress (on
\* stdout with or without the newline that ends them), after the messages of
\* all earlier reads.
C5_InOrderNoOverlap ==
    [][\A s \in Sessions :
          /\ nread'[s] # nread[s] =>
                /\ pc[s] = "read"
                /\ (IsRequest(s) /\ resp[s] # NilResponse /\ ~werr[s]) =>
                      /\ Len(out[s]) > 0
                      /\ out[s][Len(out[s])] = Written(s, resp[s])
          /\ out'[s] # out[s] =>
                /\ pc[s] = "write"
                /\ \E complete \in BOOLEAN :
                      out'[s] = Append(out[s], [Written(s, resp[s])
                                                  EXCEPT !.complete = complete])
                /\ \A i \in DOMAIN out[s] : out[s][i].n < nread[s]]_vars

C5_Witness ==
    \E s \in Sessions :
        /\ Len(out[s]) = 2
        /\ out[s][1].n = 1
        /\ out[s][2].n = 2
        /\ out[s][1].msg.t = "object"
        /\ out[s][2].msg.t = "object"

\* C6: on the pipe binding, reading a line that does not decode writes nothing
\* and leaves the loop reading; a request with an id that follows such a line
\* has its response appended to stdout at its write step (unless that write
\* returns an error).
C6_MalformedLineSkipped ==
    [][addr = "stdio" =>
          /\ (nread'[0] # nread[0] /\ cur'[0] = Malformed) =>
                (out'[0] = out[0] /\ pc'[0] = "read")
          /\ (bad[0] > 0 /\ pc[0] = "write" /\ ReqOf(0).id # JNull
              /\ pc'[0] # "write" /\ ~werr'[0]) =>
                (pc'[0] = "read" /\ out'[0] = Append(out[0], Written(0, resp[0])))]_vars

C6_Witness ==
    /\ addr = "stdio"
    /\ bad[0] = 1
    /\ nread[0] = 2
    /\ Handled(0)
    /\ ReqOf(0).id # JNull
    /\ Emitted(0) = 1

\* C7: when the handler of one connection terminates (read error, message that
\* does not decode, write error), no other session changes: its loop position,
\* its request in progress, its response and its output stay as they are.
C7_ConnectionFailureIsLocal ==
    [][\A c \in Conns :
          (pc[c] # "closed" /\ pc'[c] = "closed") =>
              \A d \in Sessions \ {c} :
                  /\ pc'[d] = pc[d]
                  /\ cur'[d] = cur[d]
                  /\ resp'[d] = resp[d]
                  /\ out'[d] = out[d]
                  /\ nread'[d] = nread[d]]_vars

C7_Witness ==
    \E c, d \in Conns :
        /\ c # d
        /\ pc[c] = "closed"
        /\ cur[c] = Malformed
        /\ pc[d] = "read"
        /\ Handled(d)
        /\ Emitted(d) = 1

SupportedMethods == {"initialize", "notifications/initialized", "ping", "tools/list",
                     "tools/call"}

\* r is an error response with this code and no result
IsError(r, code) ==
    /\ r # NilResponse
    /\ r.result = NoResult
    /\ r.error # NoError
    /\ r.error.code = code

\* the keys of the params that spell this key, in any letter case
Spelled(params, key) ==
    IF params.t = "object" THEN {k \in DOMAIN params.f : ToLower(k) = key} ELSE {}

\* the params give at most one name and at most one arguments entry
SpelledOnce(params) ==
    /\ Cardinality(Spelled(params, "name")) <= 1
    /\ Cardinality(Spelled(params, "arguments")) <= 1

\* the entry the params give for this key, null when they give none
Entry(params, key) ==
    IF Spelled(params, key) = {} THEN JNull
    ELSE params.f[CHOOSE k \in Spelled(params, key) : TRUE]

ParamName(params) == Entry(params, "name")

ParamArguments(params) == Entry(params, "arguments")

\* params are null or an object that gives name and arguments at most once,
\* whose name is a string or missing and whose arguments are an object or
\* missing
DecodesAsToolCall(params) ==
    /\ params.t \in {"null", "object"}
    /\ SpelledOnce(params)
    /\ ParamName(params).t \in {"null", "string"}
    /\ ParamArguments(params).t \in {"null", "object"}

ArgumentsOf(params) ==
    IF ParamArguments(params).t = "object" THEN ParamArguments(params).f ELSE <<>>

\* C8 as stated: an unsupported method, and a tools/call naming (once) a tool
\* that is not in the catalog, each yield error -32601 and no result.
C8_UnknownNameIsMethodNotFound ==
    \A s \in Sessions :
        (IsRequest(s) /\ pc[s] = "write") =>
            /\ ReqOf(s).method \notin SupportedMethods => IsError(resp[s], -32601)
            /\ (ReqOf(s).method = "tools/call"
                /\ SpelledOnce(ReqOf(s).params)
                /\ ParamName(ReqOf(s).params).t = "string"
                /\ ParamName(ReqOf(s).params).s \notin CatalogNames) =>
                  IsError(resp[s], -32601)

\* C8 amended: an unsupported method yields error -32601; a tools/call that
\* gives at most one name and one arguments entry (the keys read in any letter
\* case) and names no tool of the catalog yields an error and no result, with
\* code -32601 when its params decode as a tool call and -32602 when they do
\* not.
C8_UnknownNameIsError ==
    \A s \in Sessions :
        (IsRequest(s) /\ pc[s] = "write") =>
            /\ ReqOf(s).method \notin SupportedMethods => IsError(resp[s], -32601)
            /\ (ReqOf(s).method = "tools/call"
                /\ SpelledOnce(ReqOf(s).params)
                /\ ~(ParamName(ReqOf(s).params).t = "string"
                     /\ ParamName(ReqOf(s).params).s \in CatalogNames)) =>
                  IF DecodesAsToolCall(ReqOf(s).params)
                  THEN IsError(resp[s], -32601)
                  ELSE IsError(resp[s], -32602)

C8_Witness ==
    /\ pc[0] = "write"
    /\ IsRequest(0)
    /\ ReqOf(0).method = "tools/call"
    /\ ReqOf(0).params.t = "object"
    /\ DOMAIN ReqOf(0).params.f = {"Name", "Arguments"}
    /\ ParamName(ReqOf(0).params) = JStr("bogus_tool")
    /\ ParamArguments(ReqOf(0).params).t = "object"
    /\ IsError(resp[0], -32601)

\* C9: for every tool of the catalog, a tools/call whose arguments lack an
\* argument of the tool's "required" list, or give it a value that is not a
\* string, yields error -32602, and no delegate call has been made.
C9_MissingRequiredArgRejected ==
    \A s \in Sessions :
        (IsRequest(s) /\ pc[s] = "write" /\ ReqOf(s).method = "tools/call"
         /\ DecodesAsToolCall(ReqOf(s).params)) =>
            \A i \in 1..Len(Tools) :
                (/\ ParamName(ReqOf(s).params) = JStr(Tools[i].Name)
                 /\ \E j \in 1..Len(Tools[i].Required) :
                       Lookup(ArgumentsOf(ReqOf(s).params), Tools[i].Required[j]).t
                          # "string") =>
                    (IsError(resp[s], -32602) /\ work[s] = {})

\* C10: a discover_interfaces call whose project_path resolves to a path that
\* does not exist yields the not-found error and no result, and no scan is
\* made.
C10_MissingProjectPathNotFound ==
    \A s \in Sessions :
        (/\ IsRequest(s) /\ pc[s] = "write" /\ ReqOf(s).method = "tools/call"
         /\ DecodesAsToolCall(ReqOf(s).params)
         /\ ParamName(ReqOf(s).params) = JStr("discover_interfaces")
         /\ Lookup(ArgumentsOf(ReqOf(s).params), "project_path").t = "string"
         /\ ~Exists(fs, Abs(Lookup(ArgumentsOf(ReqOf(s).params), "project_path").s))) =>
            /\ IsError(resp[s], -32603)
            /\ HasPrefix(resp[s].error.message, "Project path does not exist")
            /\ "scan" \notin work[s]

---------------------------------------------------------------------------
(* generate_mock *)

\* session s holds a generate_mock call whose required arguments are strings
GenerateCall(s) ==
    /\ IsRequest(s)
    /\ ReqOf(s).method = "tools/call"
    /\ DecodesAsToolCall(ReqOf(s).params)
    /\ ParamName(ReqOf(s).params) = JStr("generate_mock")
    /\ Lookup(ArgumentsOf(ReqOf(s).params), "interface_name").t = "string"
    /\ Lookup(ArgumentsOf(ReqOf(s).params), "package_path").t = "string"

\* the output directory of the call of session s, as it is handed to
\* os.MkdirAll: an absolute one as the request writes it
OutputDirOf(s) ==
    LET a == ArgumentsOf(ReqOf(s).params)
        o == Lookup(a, "output_dir")
    IN  IF o.t = "string" /\ o.s # ""
        THEN (IF IsAbs(o.s) THEN o.s ELSE Abs(o.s))
        ELSE Join(Abs(Lookup(a, "package_path").s), "mocks")

NotFoundText == "mockery command not found in PATH"

\* r is the error of a generation that failed with this text in its data
GenerationError(r, text) ==
    /\ IsError(r, -32603)
    /\ r.error.message = "Failed to generate mock"
    /\ r.error.data.t = "string"
    /\ HasPrefix(r.error.data.s, text)

\* C11 as stated: every generate_mock call handled while the tool is not on
\* the search path returns the tool-not-found error, adds no file and does not
\* start the process.
C11_ToolAbsentAlwaysNotFound ==
    [][\A s \in Sessions :
          (pc[s] = "handle" /\ pc'[s] = "write" /\ GenerateCall(s) /\ ~lookPath) =>
              /\ GenerationError(resp'[s], NotFoundText)
              /\ fs'.files = fs.files
              /\ "exec" \notin work'[s]]_vars

\* C11 amended: a generate_mock call with string required arguments, whose
\* output directory can be created, handled while the tool is not on the search
\* path returns the tool-not-found error, adds no file (it does create the
\* output directory, with every directory its path passes through) and does
\* not start the process; when the output directory cannot be created the call
\* returns that error and adds no file; the error of a started process that
\* fails carries a different text.
C11_ToolAbsentNotFound ==
    [][\A s \in Sessions :
          (pc[s] = "handle" /\ pc'[s] = "write" /\ GenerateCall(s)) =>
              /\ (~lookPath /\ MkdirAllOk(fs, OutputDirOf(s))) =>
                    /\ GenerationError(resp'[s], NotFoundText)
                    /\ fs'.files = fs.files
                    /\ fs.dirs \subseteq fs'.dirs
                    /\ Clean(OutputDirOf(s)) \in fs'.dirs
                    /\ "exec" \notin work'[s]
              /\ (~lookPath /\ ~MkdirAllOk(fs, OutputDirOf(s))) =>
                    /\ GenerationError(resp'[s], "failed to create output directory")
                    /\ fs'.files = fs.files
                    /\ Clean(OutputDirOf(s)) \notin fs'.dirs
                    /\ "exec" \notin work'[s]
              /\ "exec" \in work'[s] =>
                    (resp'[s].error # NoError =>
                        /\ GenerationError(resp'[s], "mockery failed")
                        /\ ~GenerationError(resp'[s], NotFoundText))]_vars

C11_Witness ==
    /\ pc[0] = "write"
    /\ GenerateCall(0)
    /\ ~lookPath
    /\ GenerationError(resp[0], NotFoundText)
    /\ work[0] = {"mkdir", "lookpath"}
    /\ "/work/proj/mocks" \in fs.dirs

---------------------------------------------------------------------------
(* state shared by the handlers *)

\* C12: with the filesystem and the tool fixed, the response a handler produces
\* is the one the dispatcher computes from the request alone, whatever the
\* connections handled before and whatever the file set has accumulated; a scan
\* delivers the interfaces of a scan that nothing preceded.
C12_StatelessDispatch ==
    [][\A c \in Conns :
          (pc[c] \in {"handle", "scan"} /\ pc'[c] = "write") =>
              /\ \E exec \in ExecOutcomes :
                    resp'[c] = handleMCPRequest(cur[c].req, fs, lookPath, exec).resp
              /\ (pc[c] = "scan" /\ ~WalkFails(fs, scanning[c].root)) =>
                    scanning[c].found = ScanProject(fs, scanning[c].root).interfaces]_vars

C12_Witness ==
    \E c \in Conns :
        /\ pc[c] = "write"
        /\ nread[c] = 2
        /\ work[c] = {"stat", "scan"}
        /\ resp[c].result # NoResult
        /\ \E i \in 1..Len(fileSet) : \E j \in (i + 1)..Len(fileSet) :
              /\ fileSet[i].by # c
              /\ fileSet[j].by = c
              /\ fileSet[j].name = "/work/proj/store.go"
        /\ Len(fileSet) >= 6

\* C13: concurrent connection handlers share no mutable in-memory state: no
\* object in memory is written by more than one handler. The one object the
\* handlers of this server write after construction is the file set of the
\* scanner, so the claim holds exactly when all the files in the file set
\* were added by the same handler.
C13_NoSharedMutableState ==
    \A i, j \in 1..Len(fileSet) : fileSet[i].by = fileSet[j].by

---------------------------------------------------------------------------
(* the scanner *)

\* the interfaces a source declares at the top level of the file
TopLevelInterfaces(src) == SelectSeq(src.decls, LAMBDA d : d.isInterface /\ ~d.local)

\* the names of the methods a declaration lists, in its order
DeclaredMethods(decl) ==
    LET named == SelectSeq(decl.methods, LAMBDA m : ~m.embedded)
    IN  [i \in 1..Len(named) |-> named[i].name]

MethodNames(def) == [i \in 1..Len(def.Methods) |-> def.Methods[i].Name]

\* a path the scanner reads: a .go file that is no test and has no "vendor/"
\* in its path
Read(q) == HasSuffix(q, ".go") /\ ~HasSuffix(q, "_test.go") /\ ~Contains(q, "vendor/")

\* C14: scanning a tree of N files that the scanner reads, each of which parses
\* and declares exactly one top-level interface, returns exactly N entries, one
\* per file, with the methods of the file's interface in declaration order.
C14_OneEntryPerFile ==
    (/\ call.op = "ScanProject"
     /\ \A q \in call.in.files :
           /\ Read(q)
           /\ call.in.src[q].parses
           /\ Len(TopLevelInterfaces(call.in.src[q])) = 1) =>
        /\ ~call.out.err
        /\ Len(call.out.interfaces) = Cardinality(call.in.files)
        /\ \A q \in call.in.files :
              \E i \in 1..Len(call.out.interfaces) :
                 /\ call.out.interfaces[i].FilePath = q
                 /\ MethodNames(call.out.interfaces[i])
                      = DeclaredMethods(TopLevelInterfaces(call.in.src[q])[1])

\* the tree without the files that do not parse
WithoutUnparsable(tree) ==
    Tree([q \in {r \in tree.files : tree.src[r].parses} |-> tree.src[q]])

\* C15: when files of the tree fail to parse (and every directory can be
\* listed), ScanProject returns no error and the interfaces it would return
\* for the tree without those files.
C15_ParseFailureAbsorbed ==
    call.op = "ScanProject" =>
        /\ ~call.out.err
        /\ call.out.interfaces
             = ScanProject(WithoutUnparsable(call.in), ScannerRoot).interfaces

C15_Witness ==
    /\ call.op = "ScanProject"
    /\ call.in.files = {"/p/a.go", "/p/sub/c.go"}
    /\ call.in.src["/p/a.go"] = Unparsable
    /\ call.in.src["/p/sub/c.go"] = OneInterface
    /\ ~call.out.err
    /\ Len(call.out.interfaces) = 1
    /\ call.out.interfaces[1].FilePath = "/p/sub/c.go"

\* a path that lies in a directory named vendor
InVendorDirectory(q) == Contains(q, "/vendor/")

\* C16: the files ScanProject takes interfaces from are exactly the .go files
\* that are no test files, lie in no directory named vendor, parse and declare
\* an interface.
C16_FilesScanned ==
    call.op = "ScanProject" =>
        {call.out.interfaces[i].FilePath : i \in 1..Len(call.out.interfaces)}
          = {q \in call.in.files :
                /\ HasSuffix(q, ".go")
                /\ ~HasSuffix(q, "_test.go")
                /\ ~InVendorDirectory(q)
                /\ call.in.src[q].parses
                /\ \E i \in 1..Len(call.in.src[q].decls) :
                      call.in.src[q].decls[i].isInterface}

\* the rendering the claim gives for each shape of type expression
RECURSIVE Rendered(_)
Rendered(e) ==
    CASE e.k = "Ident" -> e.Name
      [] e.k = "SelectorExpr" -> Rendered(e.X) \o "." \o e.Sel
      [] e.k = "StarExpr" -> "*" \o Rendered(e.X)
      [] e.k = "ArrayType" /\ e.Len = NoExpr -> "[]" \o Rendered(e.Elt)
      [] e.k = "MapType" -> "map[" \o Rendered(e.Key) \o "]" \o Rendered(e.Value)
      [] e.k = "ChanType" /\ e.Dir = "SEND" -> "chan<- " \o Rendered(e.Value)
      [] e.k = "ChanType" /\ e.Dir = "RECV" -> "<-chan " \o Rendered(e.Value)
      [] e.k = "ChanType" /\ e.Dir = "BOTH" -> "chan " \o Rendered(e.Value)
      [] e.k = "FuncType" -> "func"
      [] e.k = "InterfaceType" -> "interface{}"
      [] OTHER -> "unknown"

\* C17: typeToString renders a name as the name, a qualified name as pkg.Name,
\* a pointer as *T, a slice as []T, a map as map[K]V, a channel by its
\* direction, recursively; a function type as "func", an inline interface as
\* "interface{}" and every other shape as "unknown".
C17_TypeRendering ==
    call.op = "typeToString" => call.out = Rendered(call.in)

\* the number of Parameters a field yields, and the number the fields before
\* the i-th yield
Width(field) == IF Len(field.Names) = 0 THEN 1 ELSE Len(field.Names)

RECURSIVE Before(_, _)
Before(fields, i) == IF i = 1 THEN 0 ELSE Before(fields, i - 1) + Width(fields[i - 1])

\* params lists the names of the fields in declaration order, each with the
\* type of its field, an unnamed field as one entry with an empty name
InDeclarationOrder(list, params) ==
    IF list = NoFieldList THEN params = <<>>
    ELSE /\ Len(params) = Before(list.List, Len(list.List) + 1)
         /\ \A i \in 1..Len(list.List) :
               \A j \in 1..Width(list.List[i]) :
                  /\ params[Before(list.List, i) + j].Name
                       = IF Len(list.List[i].Names) = 0 THEN ""
                         ELSE list.List[i].Names[j]
                  /\ params[Before(list.List, i) + j].Type
                       = typeToString(list.List[i].Type)

\* C18: the Parameters and the Returns of an extracted method signature list
\* the declared names in declaration order; a field that groups several names
\* yields one entry per name with the type of the field, a field without a
\* name yields one entry with an empty name.
C18_SignatureOrder ==
    (call.op = "extractMethodSignature" /\ call.in.k = "FuncType") =>
        /\ InDeclarationOrder(call.in.Params, call.out.Parameters)
        /\ InDeclarationOrder(call.in.Results, call.out.Returns)

C18_Witness ==
    /\ call.op = "extractMethodSignature"
    /\ call.in.k = "FuncType"
    /\ call.in.Params = FieldList(<<Field(<<"to", "subject", "body">>, Ident("string")),
                                    Field(<<>>, StarExpr(Ident("T")))>>)
    /\ call.in.Results = FieldList(<<Field(<<>>, Ident("string")),
                                     Field(<<"a">>, StarExpr(Ident("T")))>>)
    /\ call.out.Parameters = <<[Name |-> "to", Type |-> "string"],
                               [Name |-> "subject", Type |-> "string"],
                               [Name |-> "body", Type |-> "string"],
                               [Name |-> "", Type |-> "*T"]>>
    /\ call.out.Returns = <<[Name |-> "", Type |-> "string"],
                            [Name |-> "a", Type |-> "*T"]>>

---------------------------------------------------------------------------
(* configuration manager *)

EmptyPackages(packages) ==
    { p \in DOMAIN packages : DOMAIN packages[p].Interfaces = {} }

EmptyDirectories(packages) ==
    { e \in UNION { {p} \X DOMAIN packages[p].Interfaces : p \in DOMAIN packages } :
          packages[e[1]].Interfaces[e[2]].Config.Dir = "" }

EmptyInterfaceNames(packages) ==
    { p \in DOMAIN packages : "" \in DOMAIN packages[p].Interfaces }

NamesDefect(err, config, packages) ==
    \/ config.Filename = "" /\ Contains(err, "filename")
    \/ config.OutPkg = "" /\ Contains(err, "outpkg")
    \/ \E p \in EmptyPackages(packages) :
           Contains(err, "no interfaces") /\ Contains(err, "package " \o p)
    \/ \E e \in EmptyDirectories(packages) :
           /\ Contains(err, "directory")
           /\ Contains(err, "interface " \o e[2])
           /\ Contains(err, "package " \o e[1])
    \/ "" \in DOMAIN packages /\ Contains(err, "package path")
    \/ \E p \in EmptyInterfaceNames(packages) :
           Contains(err, "interface name") /\ Contains(err, "package " \o p)

\* C19: ValidateConfigSyntax rejects a configuration with an empty filename
\* template, an empty output package name, a package entry without
\* interfaces or an interface entry with an empty directory; the error of a
\* rejection names a field of the configuration that has such a defect; a
\* configuration without any defect (no empty package path or interface name
\* either) is accepted.
C19_ValidationRejects ==
    call.op = "ValidateConfigSyntax" =>
        LET config == call.in.config
            packages == Deref(call.in.heap, config.Packages)
            listed == \/ config.Filename = ""
                      \/ config.OutPkg = ""
                      \/ EmptyPackages(packages) # {}
                      \/ EmptyDirectories(packages) # {}
            other == \/ "" \in DOMAIN packages
                     \/ EmptyInterfaceNames(packages) # {}
        IN  /\ listed => call.out # NilError
            /\ (~listed /\ ~other) => call.out = NilError
            /\ call.out # NilError => NamesDefect(call.out, config, packages)

C19_Witness ==
    /\ call.op = "ValidateConfigSyntax"
    /\ call.in.config = MockeryConfig(FALSE, "mock_{{.InterfaceName}}.go", "mocks", 1)
    /\ call.in.heap[1] =
         [p \in {"pkgX", "pkgY"} |->
            IF p = "pkgX"
            THEN Package([n \in {"Mailer", "Store"} |->
                             IF n = "Mailer" THEN InterfaceConfig("mocks", "")
                             ELSE InterfaceConfig("", "mock_x.go")])
            ELSE Package([n \in {"Mailer"} |-> InterfaceConfig("mocks", "")])]
    /\ call.out = "directory is required for interface Store in package pkgX"

\* C20: MergeConfigurations(base, override) returns a configuration whose
\* filename template and output package are those of the override when they
\* are not empty and those of the base otherwise, whose accessor flag is that
\* of the override only when the override sets it, and whose package map is
\* the union of the two package maps, a path present in both mapping to the
\* entry of the override as a whole.
C20_MergeOverrides ==
    call.op = "MergeConfigurations" =>
        LET base == call.in.base
            override == call.in.override
            result == call.out.result
            basePackages == Deref(call.in.heap, base.Packages)
            overridePackages == Deref(call.in.heap, override.Packages)
            resultPackages == Deref(call.out.heap, result.Packages)
        IN  /\ result.Filename = IF override.Filename # "" THEN override.Filename
                                 ELSE base.Filename
            /\ result.OutPkg = IF override.OutPkg # "" THEN override.OutPkg
                               ELSE base.OutPkg
            /\ result.WithExpector = (override.WithExpector \/ base.WithExpector)
            /\ result.Packages # NilMap
            /\ DOMAIN resultPackages = DOMAIN basePackages \cup DOMAIN overridePackages
            /\ \A p \in DOMAIN resultPackages :
                   resultPackages[p] = IF p \in DOMAIN overridePackages
                                       THEN overridePackages[p] ELSE basePackages[p]

C20_Witness ==
    /\ call.op = "MergeConfigurations"
    /\ call.in.base = MockeryConfig(FALSE, "mock_{{.InterfaceName}}.go", "mocks", 1)
    /\ call.in.override = MockeryConfig(FALSE, "{{.InterfaceName}}_mock.go", "", 2)
    /\ call.in.heap[1] = [p \in {"pkgX"} |->
                             Package([n \in {"Mailer"} |-> InterfaceConfig("mocks", "")])]
    /\ call.in.heap[2] = [p \in {"pkgX", "pkgY"} |->
                             Package([n \in {"Store"} |-> InterfaceConfig("mocks", "")])]
    /\ call.out.result.Filename = "{{.InterfaceName}}_mock.go"
    /\ call.out.result.OutPkg = "mocks"
    /\ DOMAIN Deref(call.out.heap, call.out.result.Packages) = {"pkgX", "pkgY"}
    /\ DOMAIN Deref(call.out.heap, call.out.result.Packages)["pkgX"].Interfaces = {"Store"}

---------------------------------------------------------------------------
(* the scanner: imports, nested interfaces, array lengths *)

\* the import path a literal denotes: the literal without its quoting
Unquoted(value) == SubSeq(value, 2, Len(value) - 1)

\* C24: DetectDependencies returns the import paths the file references, with
\* the quoting stripped, and no import path appears in the list more than
\* once.
C24_DependenciesDistinct ==
    (call.op = "DetectDependencies" /\ call.in.parses) =>
        /\ ~call.out.err
        /\ {call.out.dependencies[i] : i \in 1..Len(call.out.dependencies)}
             = {Unquoted(call.in.Imports[i].Path.Value) : i \in 1..Len(call.in.Imports)}
        /\ \A i, j \in 1..Len(call.out.dependencies) :
               call.out.dependencies[i] = call.out.dependencies[j] => i = j

\* the entries of a scan result that come from one file, by name, in order
EntriesOf(interfaces, q) ==
    LET mine == SelectSeq(interfaces, LAMBDA d : d.FilePath = q)
    IN  [i \in 1..Len(mine) |-> mine[i].Name]

\* C25: in a file that parses, each top-level type declaration whose type is
\* an interface yields exactly one entry of the scan result, and no other
\* interface type of the file (anonymous in a parameter or result, or nested
\* anywhere else) yields an entry.
C25_TopLevelOnly ==
    call.op = "ScanProject" =>
        \A q \in call.in.files :
            (Read(q) /\ call.in.src[q].parses) =>
                EntriesOf(call.out.interfaces, q)
                  = [i \in 1..Len(TopLevelInterfaces(call.in.src[q])) |->
                        TopLevelInterfaces(call.in.src[q])[i].name]

\* the text of an array length expression as the source writes it
LengthText(len) == IF len.k = "BasicLit" THEN len.Value ELSE len.Name

\* C26: an array type of length L and element type T renders as "[L]"
\* followed by the rendering of T, L being the length expression as written.
C26_ArrayLengthPreserved ==
    (call.op = "typeToString" /\ call.in.k = "ArrayType" /\ call.in.Len # NoExpr) =>
        call.out = "[" \o LengthText(call.in.Len) \o "]" \o typeToString(call.in.Elt)

---------------------------------------------------------------------------
(* configuration manager: GenerateConfig *)

\* C22: GenerateConfig(request) returns a configuration with the default
\* global filename template and output package, whose package map has an
\* entry for the package path of the request that contains the interface name
\* of the request, with the directory equal to the package path and the
\* filename equal to the filename template of the request when it has one and
\* to mock_<lower-cased interface name>.go otherwise.
C22_GeneratedEntry ==
    call.op = "GenerateConfig" =>
        /\ call.out.config.Filename = "mock_{{.InterfaceName}}.go"
        /\ call.out.config.OutPkg = "mocks"
        /\ call.in.PackagePath \in DOMAIN call.out.packages
        /\ LET interfaces == call.out.packages[call.in.PackagePath].Interfaces IN
           /\ call.in.InterfaceName \in DOMAIN interfaces
           /\ interfaces[call.in.InterfaceName].Config.Dir = call.in.PackagePath
           /\ interfaces[call.in.InterfaceName].Config.Filename
                = IF call.in.FilenameFormat # "" THEN call.in.FilenameFormat
                  ELSE "mock_" \o ToLower(call.in.InterfaceName) \o ".go"

C22_Witness ==
    /\ call.op = "GenerateConfig"
    /\ call.in = MockGenerationRequest("Mailer", "pkgX", "", TRUE)
    /\ call.out.packages["pkgX"].Interfaces["Mailer"]
         = InterfaceConfig("pkgX", "mock_mailer.go")

\* C27: the global accessor flag of the configuration GenerateConfig returns
\* is the accessor flag of the request: on when the request has it on, off
\* when the request has it off.
C27_AccessorFlagApplied ==
    call.op = "GenerateConfig" => call.out.config.WithExpector = call.in.WithExpector

\* the package map of the default configuration of the manager
DefaultPackages(m) == Deref(m.heap, GetDefaultConfig(m).Packages)

\* C28: after any sequence of GenerateConfig calls on one manager, the default
\* configuration that GetDefaultConfig returns has an empty package map, and
\* the package map of each configuration that GenerateConfig returns holds
\* the package path of its own request and no other.  Step by step: a
\* GenerateConfig call on a manager whose default package map is empty leaves
\* that map empty and returns a package map with the package path of its
\* request and no other.
C28_CallsIndependent ==
    [][(call'.op = "GenerateConfig"
        /\ DOMAIN DefaultPackages(configManager) = {}) =>
           /\ DOMAIN DefaultPackages(configManager') = {}
           /\ DOMAIN call'.out.packages = {call'.in.PackagePath}]_vars

---------------------------------------------------------------------------
(* configuration manager: MergeConfigurations and its arguments *)

\* C29: MergeConfigurations(base, override) changes neither argument: for a
\* base with a non-nil package map, base and override have after the call the
\* package maps (keys and entries) they had before it.  The scalar fields of
\* the arguments are not assigned by the call.
C29_MergeLeavesArguments ==
    (call.op = "MergeConfigurations" /\ call.in.base.Packages # NilMap) =>
        /\ Deref(call.out.heap, call.in.base.Packages)
             = Deref(call.in.heap, call.in.base.Packages)
        /\ Deref(call.out.heap, call.in.override.Packages)
             = Deref(call.in.heap, call.in.override.Packages)

---------------------------------------------------------------------------
(* configuration manager: persistence *)

Valid(heap, config) == ValidateConfigSyntax(heap, config) = {NilError}

\* the path leads to no entry of the filesystem
Missing(f, filePath) == PathLookup(f, filePath).errno = "ENOENT"

\* the path leads to a file whose content is a YAML document that fails
\* validation
HoldsInvalid(f, filePath) ==
    LET at == PathLookup(f, filePath) IN
    /\ at.errno = "ok"
    /\ at.path \in f.files
    /\ ~yamlUnmarshal(f.data[at.path]).err
    /\ ~Valid(yamlUnmarshal(f.data[at.path]).heap, yamlUnmarshal(f.data[at.path]).config)

SameConfiguration(heap1, config1, heap2, config2) ==
    /\ config1.WithExpector = config2.WithExpector
    /\ config1.Filename = config2.Filename
    /\ config1.OutPkg = config2.OutPkg
    /\ Deref(heap1, config1.Packages) = Deref(heap2, config2.Packages)

WriteChecked ==
    (call'.op = "WriteConfigFile" /\ ~Valid(call'.in.heap, call'.in.config)) =>
        /\ call'.out.err # NilError
        /\ fs' = fs

ReadChecked ==
    (/\ call'.op = "ReadConfigFile"
     /\ \/ Missing(fs, call'.in.filePath)
        \/ HoldsInvalid(fs, call'.in.filePath)) =>
        /\ call'.out.err # NilError
        /\ call'.out.config = NilConfig

RoundTrip ==
    (/\ call.op = "WriteConfigFile"
     /\ call.out.err = NilError
     /\ call'.op = "ReadConfigFile"
     /\ call'.in.filePath = call.in.filePath) =>
        /\ call'.out.err = NilError
        /\ SameConfiguration(call.in.heap, call.in.config,
                             call'.out.heap, call'.out.config)

\* C21: WriteConfigFile of a configuration that fails validation returns an
\* error and writes no file; ReadConfigFile of the path that a WriteConfigFile
\* of a valid configuration has just written returns a configuration with the
\* accessor flag, filename template, output package and package map of the
\* one written; ReadConfigFile of a missing file, or of a file whose content
\* fails validation, returns an error and no configuration.
C21_PersistenceRoundTrip == [][WriteChecked /\ ReadChecked /\ RoundTrip]_vars

C21_Witness ==
    /\ call.op = "ReadConfigFile"
    /\ call.in.filePath = "/work/new/.mockery.yaml"
    /\ call.out.err = NilError
    /\ call.out.config = MockeryConfig(FALSE, "fake.go", "fakes", 1)
    /\ call.out.heap = <<TwoPackages>>

---------------------------------------------------------------------------
(* the invoker: output directory and filename *)

\* the template with every {{.InterfaceName}} token replaced by the name
Instantiated(format, name) ==
    CASE format = "{{.InterfaceName}}_mock.go" -> name \o "_mock.go"
      [] format = "{{.InterfaceName}}_{{.InterfaceName}}.go" -> name \o "_" \o name \o ".go"
      [] OTHER -> format

LowerCased(name) == IF name = "Greeter" THEN "greeter" ELSE "store"

ExpectedDir(request) ==
    IF request.OutputDir # "" THEN Abs(request.OutputDir)
    ELSE Join(Abs(request.PackagePath), "mocks")

ExpectedFilename(request) ==
    IF request.FilenameFormat # ""
    THEN Instantiated(request.FilenameFormat, request.InterfaceName)
    ELSE "mock_" \o LowerCased(request.InterfaceName) \o ".go"

\* the directory the tool is told to write to
OutputArgument == SubSeq(call.out.args[3], Len("--output=") + 1, Len(call.out.args[3]))

\* C23: in a successful GenerateMock the output directory is the directory the
\* output directory of the request names when it gives one, and
\* <absolute package path>/mocks otherwise; the filename is the template
\* of the request with every {{.InterfaceName}} token replaced by the
\* interface name when it gives one and mock_<lower-cased name>.go otherwise;
\* the result is a success whose generated file is the output directory joined
\* with the filename.
C23_OutputLocation ==
    (call.op = "GenerateMock" /\ call.out.err = "") =>
        /\ HasPrefix(call.out.args[3], "--output=")
        /\ Abs(OutputArgument) = ExpectedDir(call.in)
        /\ call.out.args[4] = "--filename=" \o ExpectedFilename(call.in)
        /\ call.out.GeneratedFile = Join(OutputArgument, ExpectedFilename(call.in))

C23_Witness ==
    /\ call.op = "GenerateMock"
    /\ call.in.InterfaceName = "Greeter"
    /\ call.in.PackagePath = "proj"
    /\ call.in.OutputDir = "./mocks"
    /\ call.in.FilenameFormat = "{{.InterfaceName}}_{{.InterfaceName}}.go"
    /\ call.out.err = ""
    /\ call.out.args[3] = "--output=/work/mocks"
    /\ call.out.GeneratedFile = "/work/mocks/Greeter_Greeter.go"

---------------------------------------------------------------------------
(* the job registry *)

Jobs == {projectManager.heap[i] : i \in 1..Len(projectManager.heap)}

JobsWellFormed ==
    \A job \in Jobs :
        /\ ~job.updated =>
              /\ job.Status = JobStatusPending
              /\ job.StartedAt = NoTime
              /\ job.CompletedAt = NoTime
        /\ job.Status = JobStatusRunning => job.StartedAt # NoTime
        /\ job.Status \in {JobStatusCompleted, JobStatusFailed, JobStatusCancelled} =>
              job.CompletedAt # NoTime

TimesKept ==
    \A i \in 1..Len(projectManager.heap) :
        /\ i <= Len(projectManager'.heap)
        /\ projectManager.heap[i].StartedAt # NoTime =>
              projectManager'.heap[i].StartedAt # NoTime
        /\ projectManager.heap[i].CompletedAt # NoTime =>
              projectManager'.heap[i].CompletedAt # NoTime

UnknownIdIgnored ==
    (call'.op = "UpdateJobStatus" /\ call'.in.jobID \notin DOMAIN projectManager.jobs) =>
        /\ projectManager'.heap = projectManager.heap
        /\ projectManager'.jobs = projectManager.jobs

\* C30: after any sequence of CreateJob and UpdateJobStatus calls, a job that
\* was created and never updated is pending and has neither a start nor a
\* completion time; a running job has a start time; a completed, failed or
\* cancelled job has a completion time; a time that is set stays set; and
\* UpdateJobStatus with an id that names no job changes no job.
C30_JobLifecycle ==
    [][JobsWellFormed /\ JobsWellFormed' /\ TimesKept /\ UnknownIdIgnored]_vars

C30_Witness ==
    /\ call.op = "UpdateJobStatus"
    /\ Len(projectManager.heap) = 2
    /\ DOMAIN projectManager.jobs = {"job-a", "job-b"}
    /\ projectManager.jobs["job-a"] = 1
    /\ projectManager.jobs["job-b"] = 2
    /\ projectManager.heap[1].Status = JobStatusCompleted
    /\ projectManager.heap[1].StartedAt # NoTime
    /\ projectManager.heap[1].CompletedAt # NoTime
    /\ projectManager.heap[2].Status = JobStatusPending
    /\ ~projectManager.heap[2].updated

====
